---- MODULE Spec2Model ----
(***************************************************************************)
(* A model of greaseweazle's disk-format description compiler              *)
(* (codec/formats.py, get_format) and of its FM track codec                *)
(* (codec/ibm/fm.py).                                                      *)
(*                                                                         *)
(* Python values are represented as follows.                               *)
(*   None            NoneVal (-1) for an optional integer, the empty       *)
(*                   sequence <<>> for an optional object (<<x>> is x)     *)
(*   an exception    a record [type, msg, key, line]; line = 0 when the    *)
(*                   message carries no "<cfg>, line <n>: " prefix         *)
(*   a text line     a record: the result of stripping the comment and     *)
(*                   matching the line against the regular expressions     *)
(*   an object       an index into the sequence of allocated objects       *)
(***************************************************************************)
EXTENDS Integers, Sequences, FiniteSets, TLC

VARIABLES
    name,          \* get_format: the requested disk name
    feed,          \* the document: the lines it may hold
    linenr,        \* get_format: number of the line read last (1-based)
    parse_mode,    \* get_format: Outer, Disk or Track
    active,        \* get_format: inside the requested disk block
    disk_config,   \* get_format: <<>> (None) or <<DiskConfig>>
    tcs,           \* the IBMTrackConfig objects, in allocation order
    track_config,  \* get_format: 0 (None) or an index into tcs
    pc,            \* "parse", "done" or "error"
    err,           \* <<>> or <<the exception that left get_format>>
    result,        \* <<>> (None) or <<Format>>
    line,          \* history: the line read last
    toks,          \* history: the directive structure of the lines read
    hist,          \* history: the track-specifier elements applied
    track,         \* <<>> or <<the result of mk_track>>
    cs,            \* construct_sectors: the loop that fills sec_map
    trk,           \* <<the formatted track object>>
    wr,            \* <<>> or <<the outcome of the last write and verify>>
    merges,        \* the merges of the dedup of the last decode_raw
    ndec,          \* the captures decoded into the track so far
    lay,           \* <<>> or <<[config, cyl, head]>>, the input of from_format
    img,           \* <<>> or <<the last image import and export>>
    scn,           \* <<>> or <<the mark scan of a capture>>
    conv           \* <<>> or <<the conversion to offsets within the track>>

fmtvars == <<name, feed, linenr, parse_mode, active, disk_config, tcs,
             track_config, pc, err, result, line, toks, hist, track>>

trkvars == <<trk, wr, merges, ndec, lay, img, scn, conv>>

vars == <<fmtvars, cs, trkvars>>

----------------------------------------------------------------------------
(* Bounds of the model. *)

\* Longest document read from a free alphabet.
MaxLines == 7

\* construct_sectors: most sectors, greatest interleave, cylinder and skew
\* tried (the interleave 255 is tried as well).
MaxSecs == 8
MaxInterleave == 9
MaxSkew == 2

\* Formatted tracks: most sectors of a track, most captures decoded into a
\* track, most revolutions of a capture.
MaxTrkSecs == 2
MaxDecodes == 1
MaxRevs == 2

----------------------------------------------------------------------------
(* Python helpers. *)

NoneVal == -1

Outer == 0
Disk == 1
Track == 2

Ok(v) == [err |-> <<>>, val |-> v]

Raise(type, msg, key) ==
    [err |-> <<[type |-> type, msg |-> msg, key |-> key, line |-> 0]>>,
     val |-> <<>>]

\* error.check(pred, desc)
Check(pred, msg, key, v) == IF pred THEN Ok(v) ELSE Raise("Fatal", msg, key)

\* int(val): a ValueError unless the text is a decimal integer.
IsInt(val) == val.t = "int"

\* The value text of a key=value line: a decimal integer, a word, or (for
\* the bps key) the comma-separated items N or N*L.
IntV(n) == [t |-> "int", v |-> n, w |-> "", items |-> <<>>]
WordV(w) == [t |-> "word", v |-> 0, w |-> w, items |-> <<>>]
ListV(items) == [t |-> "list", v |-> 0, w |-> "", items |-> items]

Max(a, b) == IF a >= b THEN a ELSE b
Min(a, b) == IF a <= b THEN a ELSE b

RECURSIVE Shl(_, _)
Shl(x, k) == IF k = 0 THEN x ELSE Shl(2 * x, k - 1)

\* [x] * k
Repeat(x, k) == SubSeq([i \in 1 .. k |-> x], 1, k)

----------------------------------------------------------------------------
(* IBMTrackConfig *)

\* mfm.default_revs (the class attribute IBMTrackConfig.default_revs)
mfm_default_revs == 2

IBMTrackConfig(format_name) ==
    [secs |-> 0, sz |-> <<>>, id |-> 1, h |-> NoneVal,
     format_name |-> format_name, interleave |-> 1, cskew |-> 0, hskew |-> 0,
     rpm |-> 300, gap1 |-> NoneVal, gap2 |-> NoneVal, gap3 |-> NoneVal,
     gap4a |-> NoneVal, iam |-> TRUE, rate |-> 0, finalised |-> FALSE,
     default_revs |-> mfm_default_revs]

\* The size code s of a sector of n bytes: n = 128 << s with s <= 6, else -1.
RECURSIVE SizeCode(_, _)
SizeCode(n, s) ==
    IF n = Shl(128, s) THEN s
    ELSE IF s + 1 <= 6 THEN SizeCode(n, s + 1) ELSE NoneVal

\* The loop over val.split(',') of the bps key.
RECURSIVE BpsItems(_, _)
BpsItems(items, sz) ==
    IF items = <<>> THEN Ok(sz)
    ELSE LET s == SizeCode(Head(items).n, 0)
         IN  IF s = NoneVal THEN Raise("Fatal", "bps value out of range", "bps")
             ELSE BpsItems(Tail(items), sz \o Repeat(s, Head(items).l))

TrackIntParam(tc, key, val, lo, hi) ==
    IF ~IsInt(val) THEN Raise("ValueError", "invalid literal", key)
    ELSE Check(lo <= val.v /\ val.v <= hi, "out of range", key,
               [tc EXCEPT ![key] = val.v])

TrackAddParam(tc, key, val) ==
    CASE key = "secs" -> TrackIntParam(tc, key, val, 0, 256)
      [] key = "bps" ->
           IF val.t = "word" THEN Raise("ValueError", "invalid literal", key)
           ELSE LET r == BpsItems(IF IsInt(val) THEN <<[n |-> val.v, l |-> 1]>>
                                   ELSE val.items, <<>>)
                IN  IF r.err # <<>> THEN r ELSE Ok([tc EXCEPT !.sz = r.val])
      [] key = "interleave" -> TrackIntParam(tc, key, val, 1, 255)
      [] key \in {"id", "cskew", "hskew"} -> TrackIntParam(tc, key, val, 0, 255)
      [] key \in {"gap1", "gap2", "gap3", "gap4a", "h"} ->
           IF val = WordV("auto") THEN Ok([tc EXCEPT ![key] = NoneVal])
           ELSE TrackIntParam(tc, key, val, 0, 255)
      [] key = "iam" ->
           Check(val \in {WordV("yes"), WordV("no")}, "bad iam value", key,
                 [tc EXCEPT !.iam = (val = WordV("yes"))])
      [] key \in {"rate", "rpm"} -> TrackIntParam(tc, key, val, 1, 2000)
      [] OTHER -> Raise("Fatal", "unrecognised track option", key)

\* finalise() without the check of gap1 against iam.
TrackFinaliseNoIamCheck(tc) ==
    IF tc.finalised THEN Ok(tc)
    ELSE IF ~(tc.secs = 0 \/ Len(tc.sz) # 0)
         THEN Raise("Fatal", "sector size not specified", "")
    ELSE Ok([tc EXCEPT !.finalised = TRUE])

TrackFinalise(tc) ==
    IF tc.finalised THEN Ok(tc)
    ELSE IF ~(tc.iam \/ tc.gap1 = NoneVal)
         THEN Raise("Fatal", "gap1 specified but no iam", "")
    ELSE IF ~(tc.secs = 0 \/ Len(tc.sz) # 0)
         THEN Raise("Fatal", "sector size not specified", "")
    ELSE Ok([tc EXCEPT !.finalised = TRUE])

----------------------------------------------------------------------------
(* DiskConfig *)

DiskConfig == [cyls |-> NoneVal, heads |-> NoneVal, step |-> 1,
               track_map |-> <<>>]

DiskIntParam(dc, key, val, lo, hi) ==
    IF ~IsInt(val) THEN Raise("ValueError", "invalid literal", key)
    ELSE Check(lo <= val.v /\ val.v <= hi, "out of range", key,
               [dc EXCEPT ![key] = val.v])

DiskAddParam(dc, key, val) ==
    CASE key = "cyls" -> DiskIntParam(dc, key, val, 1, 255)
      [] key = "heads" -> DiskIntParam(dc, key, val, 1, 2)
      [] key = "step" -> DiskIntParam(dc, key, val, 1, 4)
      [] OTHER -> Raise("Fatal", "unrecognised disk option", key)

DiskFinalise(dc) ==
    IF dc.cyls = NoneVal THEN Raise("Fatal", "missing cyls", "")
    ELSE IF dc.heads = NoneVal THEN Raise("Fatal", "missing heads", "")
    ELSE Ok(dc)

\* max([x.default_revs for x in self.track_map.values()])
RECURSIVE MaxOf(_)
MaxOf(S) ==
    LET x == CHOOSE y \in S : TRUE
    IN  IF S = {x} THEN x ELSE Max(x, MaxOf(S \ {x}))

DiskDefaultRevs(dc, heap) ==
    IF DOMAIN dc.track_map = {}
    THEN Raise("ValueError", "max() arg is an empty sequence", "")
    ELSE Ok(MaxOf({heap[dc.track_map[p]].default_revs : p \in DOMAIN dc.track_map}))

\* Format(disk_config)
Format(dc, heap) ==
    LET r == DiskDefaultRevs(dc, heap)
    IN  IF r.err # <<>> THEN r
        ELSE Ok([fmt |-> dc, default_revs |-> r.val])

mk_track_config(format_name) ==
    IF format_name \in {"ibm.mfm", "ibm.fm"} THEN Ok(IBMTrackConfig(format_name))
    ELSE Raise("Fatal", "unrecognised format name", format_name)

----------------------------------------------------------------------------
(* get_format: the tracks directive *)

AllTracks(dc) == (0 .. dc.cyls - 1) \X (0 .. dc.heads - 1)

\* An assignment that keeps the template of a position already assigned.
AssignKeepFirst(track_map, S, tc) ==
    [p \in DOMAIN track_map \cup S |->
       IF p \in DOMAIN track_map THEN track_map[p] ELSE tc]

\* track_map with every position of S set to the object tc.
Assign(track_map, S, tc) ==
    [p \in DOMAIN track_map \cup S |-> IF p \in S THEN tc ELSE track_map[p]]

\* The positions one element x of the track list assigns, or the error it
\* raises.  x.t is "star" for '*', "rng" for C[-C2][.H] (e and h are
\* NoneVal when absent) and "bad" for a text the specifier pattern rejects.
StarPositionsAll(dc) == AllTracks(dc)

\* '*': every position of cyls x heads that is not in the track map.
StarPositions(dc) == {p \in AllTracks(dc) : p \notin DOMAIN dc.track_map}

SpecPositions(dc, x) ==
    IF x.t = "star" THEN Ok(StarPositions(dc))
    ELSE IF x.t = "bad" THEN Raise("Fatal", "bad track specifier", "")
    ELSE LET s == x.s
             e == IF x.e = NoneVal THEN s ELSE x.e
         IN  IF x.h # NoneVal /\ ~(x.h < dc.heads)
             THEN Raise("Fatal", "head out of range", "")
             ELSE IF ~(0 <= s /\ s < dc.cyls /\ 0 <= e /\ e < dc.cyls /\ s <= e)
             THEN Raise("Fatal", "cylinder out of range", "")
             ELSE Ok((s .. e) \X (IF x.h = NoneVal THEN 0 .. dc.heads - 1
                                  ELSE {x.h}))

\* for x in tracks_match.group(1).split(','): ...
\* st = [dc, hist]; hist records each element applied, for the claims.
RECURSIVE ApplySpecs(_, _, _)
ApplySpecs(st, xs, tc) ==
    IF xs = <<>> THEN Ok(st)
    ELSE LET r == SpecPositions(st.dc, Head(xs))
         IN  IF r.err # <<>> THEN r
             ELSE ApplySpecs(
                    [dc |-> [st.dc EXCEPT !.track_map = Assign(@, r.val, tc)],
                     hist |-> Append(st.hist,
                                [tc |-> tc, wild |-> Head(xs).t = "star",
                                 pos |-> r.val, before |-> st.dc.track_map])],
                    Tail(xs), tc)

----------------------------------------------------------------------------
(* get_format: one line of the document.  S holds the local variables     *)
(* [parse_mode, active, disk_config, tcs, track_config, hist]; each        *)
(* operator is the branch of the loop body for one parse mode and yields    *)
(* the locals after the line, or the exception raised.                     *)

\* A header that activates the block whatever its name.
OuterStepAnyName(S, l) ==
    IF l.k # "disk" THEN Raise("Fatal", "syntax error", "")
    ELSE Ok([S EXCEPT !.parse_mode = Disk, !.active = TRUE,
                      !.disk_config = <<DiskConfig>>, !.hist = <<>>])

OuterStep(S, l) ==
    IF l.k # "disk" THEN Raise("Fatal", "syntax error", "")
    ELSE Ok([S EXCEPT !.parse_mode = Disk,
                      !.active = (l.name = name),
                      !.disk_config = IF l.name = name THEN <<DiskConfig>>
                                      ELSE @,
                      !.hist = IF l.name = name THEN <<>> ELSE @])

TracksStep(S, l) ==
    LET dc == S.disk_config[1]
        c == mk_track_config(l.fmt)
    IN  IF dc.cyls = NoneVal THEN Raise("Fatal", "missing cyls", "")
        ELSE IF dc.heads = NoneVal THEN Raise("Fatal", "missing heads", "")
        ELSE IF c.err # <<>> THEN c
        ELSE LET tc == Len(S.tcs) + 1
                 r == ApplySpecs([dc |-> dc, hist |-> S.hist], l.spec, tc)
             IN  IF r.err # <<>> THEN r
                 ELSE Ok([S EXCEPT !.parse_mode = Track,
                                   !.tcs = Append(@, c.val),
                                   !.track_config = tc,
                                   !.disk_config = <<r.val.dc>>,
                                   !.hist = r.val.hist])

\* The Disk branch with the syntax check ahead of the test of active.
DiskStepSyntaxFirst(S, l) ==
    IF l.k = "end" THEN Ok([S EXCEPT !.parse_mode = Outer, !.active = FALSE])
    ELSE IF l.k = "tracks"
         THEN IF ~S.active THEN Ok([S EXCEPT !.parse_mode = Track])
              ELSE TracksStep(S, l)
    ELSE IF l.k # "kv" THEN Raise("Fatal", "syntax error", "")
    ELSE IF ~S.active THEN Ok(S)
    ELSE LET r == DiskAddParam(S.disk_config[1], l.key, l.val)
         IN  IF r.err # <<>> THEN r
             ELSE Ok([S EXCEPT !.disk_config = <<r.val>>])

DiskStep(S, l) ==
    IF l.k = "end" THEN Ok([S EXCEPT !.parse_mode = Outer, !.active = FALSE])
    ELSE IF l.k = "tracks"
         THEN IF ~S.active THEN Ok([S EXCEPT !.parse_mode = Track])
              ELSE TracksStep(S, l)
    ELSE IF ~S.active THEN Ok(S)
    ELSE IF l.k # "kv" THEN Raise("Fatal", "syntax error", "")
    ELSE LET r == DiskAddParam(S.disk_config[1], l.key, l.val)
         IN  IF r.err # <<>> THEN r
             ELSE Ok([S EXCEPT !.disk_config = <<r.val>>])

TrackStep(S, l) ==
    IF l.k = "end"
    THEN IF S.track_config = 0 THEN Ok([S EXCEPT !.parse_mode = Disk])
         ELSE LET r == TrackFinalise(S.tcs[S.track_config])
              IN  IF r.err # <<>> THEN r
                  ELSE Ok([S EXCEPT !.parse_mode = Disk,
                                    !.tcs[S.track_config] = r.val,
                                    !.track_config = 0])
    ELSE IF ~S.active THEN Ok(S)
    ELSE IF l.k # "kv" THEN Raise("Fatal", "syntax error", "")
    ELSE LET r == TrackAddParam(S.tcs[S.track_config], l.key, l.val)
         IN  IF r.err # <<>> THEN r
             ELSE Ok([S EXCEPT !.tcs[S.track_config] = r.val])

\* except Exception as err: err.args = ("%s, line %d: " ...) ...; raise
Annotate(e, nr) == [e EXCEPT !.line = nr]

----------------------------------------------------------------------------
(* fm.py: the FM bit codec.  An encoded byte is a 16-bit word (two bytes,   *)
(* big-endian); a bitstream is a sequence of bits, first bit first.        *)

\* 1 << k for k = 0 .. 15
Pow2 == <<1, 2, 4, 8, 16, 32, 64, 128, 256, 512, 1024, 2048, 4096, 8192,
          16384, 32768>>

Bit(x, k) == (x \div Pow2[k + 1]) % 2

RECURSIVE Xor(_, _)
Xor(a, b) ==
    IF a = 0 THEN b
    ELSE IF b = 0 THEN a
    ELSE ((a + b) % 2) + 2 * Xor(a \div 2, b \div 2)

RECURSIVE Or(_, _)
Or(a, b) ==
    IF a = 0 THEN b
    ELSE IF b = 0 THEN a
    ELSE Max(a % 2, b % 2) + 2 * Or(a \div 2, b \div 2)

\* sync(dat, clk): the clock bits interleaved with the data bits.
RECURSIVE syncLoop(_, _, _, _)
syncLoop(dat, clk, i, x) ==
    IF i = 8 THEN x
    ELSE syncLoop(dat, clk, i + 1, (2 * x + Bit(clk, 7 - i)) * 2 + Bit(dat, 7 - i))

sync(dat, clk) == syncLoop(dat, clk, 0, 0)

\* encode_list[x]: every clock bit is 1.
encode_list(x) == syncLoop(x, 255, 0, 0)

\* encode(dat): one word for each byte.
encode(dat) == [i \in 1 .. Len(dat) |-> encode_list(dat[i])]

\* The bits of a 16-bit word, and of the words t[lo .. hi], first bit
\* first (by halves: the recursion stays shallow).
Bits16(x) ==
    <<Bit(x, 15), Bit(x, 14), Bit(x, 13), Bit(x, 12), Bit(x, 11), Bit(x, 10),
      Bit(x, 9), Bit(x, 8), Bit(x, 7), Bit(x, 6), Bit(x, 5), Bit(x, 4),
      Bit(x, 3), Bit(x, 2), Bit(x, 1), Bit(x, 0)>>

RECURSIVE BitsLoop(_, _, _)
BitsLoop(t, lo, hi) ==
    IF lo > hi THEN <<>>
    ELSE IF lo = hi THEN Bits16(t[lo])
    ELSE LET mid == (lo + hi) \div 2
         IN  BitsLoop(t, lo, mid) \o BitsLoop(t, mid + 1, hi)

\* The bits of a sequence of 16-bit words.
WordBits(t) == BitsLoop(t, 1, Len(t))

\* sync_prefix: the first 16+10 bits of aa aa + sync(0xf8).
sync_prefix == SubSeq(WordBits(<<43690, sync(248, 199)>>), 1, 26)

iam_sync_bytes == sync(252, 215)

iam_sync == WordBits(<<43690, iam_sync_bytes>>)

\* bits.itersearch(pat): the offsets (from 0) at which pat occurs.
itersearch(bits, pat) ==
    LET m == Len(pat)
    IN  {o \in 0 .. Len(bits) - m : \A k \in 1 .. m : bits[o + k] = pat[k]}

\* decode(bits[s:s+16*n].tobytes()): the bits at the odd positions of the
\* slice, packed into n bytes.
decode(bits, s, n) ==
    SubSeq([j \in 1 .. n |->
              LET b(i) == bits[s + 16 * (j - 1) + 2 * i + 2]
              IN  128 * b(0) + 64 * b(1) + 32 * b(2) + 16 * b(3)
                  + 8 * b(4) + 4 * b(5) + 2 * b(6) + b(7)], 1, n)

\* crcmod.predefined.Crc('crc-ccitt-false'): polynomial 0x1021, initial
\* value 0xffff, most significant bit first, no final xor.
RECURSIVE crcShift(_, _)
crcShift(c, k) ==
    IF k = 0 THEN c
    ELSE crcShift(IF c >= 32768 THEN Xor((2 * c) % 65536, 4129) ELSE 2 * c,
                  k - 1)

\* One byte of the message.
crcByte(c, x) == crcShift(256 * Xor(c \div 256, x) + (c % 256), 8)

\* The bytes b[lo..hi] in order, by halves (the recursion stays shallow).
RECURSIVE crcLoop(_, _, _, _)
crcNext(b, lo, hi, c) == IF c >= 0 THEN crcLoop(b, lo, hi, c) ELSE c

crcLoop(b, lo, hi, c) ==
    IF lo > hi THEN c
    ELSE IF lo = hi THEN crcByte(c, b[lo])
    ELSE crcNext(b, (lo + hi) \div 2 + 1, hi,
                 crcLoop(b, lo, (lo + hi) \div 2, c))

crc16(b) == crcLoop(b, 1, Len(b), 65535)

\* struct.pack('>H', x)
packH(x) == <<x \div 256, x % 256>>

----------------------------------------------------------------------------
(* mfm.py: the track areas.  An area is a record [kind, start, end, crc,    *)
(* idam, dam]; idam and dam are the fields of a Sector (idam alone of a     *)
(* dangling IDAM, dam alone of an isolated DAM).                           *)

IDAM(start, end, crc, c, h, r, n) ==
    [start |-> start, end |-> end, crc |-> crc, c |-> c, h |-> h, r |-> r,
     n |-> n]

DAM(start, end, crc, mark, data) ==
    [start |-> start, end |-> end, crc |-> crc, mark |-> mark, data |-> data]

NoIDAM == IDAM(0, 0, NoneVal, 0, 0, 0, 0)
NoDAM == DAM(0, 0, NoneVal, 0, <<>>)

IAM(start, end) ==
    [kind |-> "IAM", start |-> start, end |-> end, crc |-> NoneVal,
     idam |-> NoIDAM, dam |-> NoDAM]

IDAMArea(idam) ==
    [kind |-> "IDAM", start |-> idam.start, end |-> idam.end,
     crc |-> idam.crc, idam |-> idam, dam |-> NoDAM]

DAMArea(dam) ==
    [kind |-> "DAM", start |-> dam.start, end |-> dam.end, crc |-> dam.crc,
     idam |-> NoIDAM, dam |-> dam]

Sector(idam, dam) ==
    [kind |-> "Sector", start |-> idam.start, end |-> dam.end,
     crc |-> Or(idam.crc, dam.crc), idam |-> idam, dam |-> dam]

\* a.delta(p)
delta(a, p) ==
    [a EXCEPT !.start = @ - p, !.end = @ - p,
              !.idam = IF a.kind \in {"IDAM", "Sector"}
                       THEN [@ EXCEPT !.start = @ - p, !.end = @ - p] ELSE @,
              !.dam = IF a.kind \in {"DAM", "Sector"}
                      THEN [@ EXCEPT !.start = @ - p, !.end = @ - p] ELSE @]

\* list.sort(key = ...): a stable sort, by insertion of [k, v] pairs.
RECURSIVE Insert(_, _)
Insert(s, a) ==
    IF s = <<>> THEN <<a>>
    ELSE IF s[Len(s)].k <= a.k THEN Append(s, a)
    ELSE Append(Insert(SubSeq(s, 1, Len(s) - 1), a), s[Len(s)])

RECURSIVE SortLoop(_, _, _)
SortLoop(s, i, out) ==
    IF i > Len(s) THEN out ELSE SortLoop(s, i + 1, Insert(out, s[i]))

Sort(s, keys) ==
    LET sorted == SortLoop([i \in DOMAIN s |-> [k |-> keys[i], v |-> s[i]]],
                           1, <<>>)
    IN  [i \in DOMAIN s |-> sorted[i].v]

SortByStart(s) == Sort(s, [i \in DOMAIN s |-> s[i].start])
\* The sectors left in the order they have.
KeepOrder(s) == s

SortByR(s) == Sort(s, [i \in DOMAIN s |-> s[i].idam.r])

----------------------------------------------------------------------------
(* fm.py: IBM_FM_Formatted, the formatted-track builder.  A track object    *)
(* is a record; time_per_rev is 60 / rpm and clock is time_per_rev /        *)
(* tracklen_bc, so the record keeps rpm and tracklen_bc.                    *)

IBM_FM_IAM == 252
IBM_FM_IDAM == 254
IBM_FM_DAM == 251
IBM_FM_DDAM == 248
gap_presync == 6
gapbyte == 255
GAP_1 == 26
GAP_2 == 11
GAP_3 == <<27, 42, 58, 138, 255, 255, 255, 255>>
fm_default_revs == 2

\* b'-=[BAD SECTOR]=-' * (size // 16)
BadSector == <<45, 61, 91, 66, 65, 68, 32, 83, 69, 67, 84, 79, 82, 93, 61, 45>>
BadSectorData(size) ==
    [i \in 1 .. 16 * (size \div 16) |-> BadSector[((i - 1) % 16) + 1]]

\* self.sec_n(i); NoneVal stands for the IndexError of an empty sz.
sec_n(t, i) ==
    IF i < Len(t.sz) THEN t.sz[i + 1]
    ELSE IF Len(t.sz) = 0 THEN NoneVal ELSE t.sz[Len(t.sz)]

\* The slot stepped to, taken without the search for a free one.
FreeSlotNoSearch(sec_map, nsec, pos, tries) == pos

\* while sec_map[pos] != -1: pos = (pos + 1) % self.nsec
\* NoneVal when every slot is taken (the loop would not end).
RECURSIVE FreeSlot(_, _, _, _)
FreeSlot(sec_map, nsec, pos, tries) ==
    IF sec_map[pos] = -1 THEN pos
    ELSE IF tries = 0 THEN NoneVal
    ELSE FreeSlot(sec_map, nsec, (pos + 1) % nsec, tries - 1)

\* One pass of the loop that fills sec_map: m = [sec_map, pos].
PlaceSector(m, nsec, interleave, i) ==
    LET pos == IF m.pos = NoneVal THEN NoneVal
               ELSE FreeSlot(m.sec_map, nsec, m.pos, nsec)
    IN  IF pos = NoneVal THEN [m EXCEPT !.pos = NoneVal]
        ELSE [sec_map |-> [m.sec_map EXCEPT ![pos] = i],
              pos |-> (pos + interleave) % nsec]

SecMapStart(nsec, cyl, head, cskew, hskew) ==
    [sec_map |-> [s \in 0 .. nsec - 1 |-> -1],
     pos |-> IF nsec # 0 THEN (cyl * cskew + head * hskew) % nsec ELSE 0]

RECURSIVE SecMapLoop(_, _, _, _)
SecMapLoop(m, nsec, interleave, i) ==
    IF i >= nsec THEN m
    ELSE SecMapLoop(PlaceSector(m, nsec, interleave, i), nsec, interleave,
                    i + 1)

\* The loop that lays out the sectors: slot i of the rotational order.
RECURSIVE LayoutLoop(_, _, _, _, _)
LayoutLoop(t, sec_map, i, pos, sectors) ==
    IF i >= t.nsec THEN sectors
    ELSE LET sec == sec_map[i]
             p1 == pos + gap_presync
             n == sec_n(t, sec)
             idam == IDAM(p1 * 16, (p1 + 7) * 16, 65535,
                          t.cyl, t.h, t.id0 + sec, n)
             p2 == p1 + 7 + t.gap_2 + gap_presync
             size == Shl(128, n)
             dam == DAM(p2 * 16, (p2 + 1 + size + 2) * 16, 65535,
                        IBM_FM_DAM, BadSectorData(size))
         IN  LayoutLoop(t, sec_map, i + 1, p2 + 1 + size + 2 + t.gap_3,
                        Append(sectors, Sector(idam, dam)))

construct_sectors(t) ==
    LET m == SecMapLoop(SecMapStart(t.nsec, t.cyl, t.head, t.cskew, t.hskew),
                        t.nsec, t.interleave, 0)
        pos == t.gap_4a
        iampos == pos + gap_presync
    IN  [t EXCEPT
           !.iams = IF t.gap_1 # NoneVal
                    THEN <<IAM(iampos * 16, (iampos + 1) * 16)>> ELSE @,
           !.sectors = LayoutLoop(t, m.sec_map, 0,
                                  IF t.gap_1 # NoneVal
                                  THEN iampos + 1 + t.gap_1 ELSE pos,
                                  t.sectors)]

\* The sum taken with the size of sector 0 for every sector.
DataLenUniform(t, i) ==
    IF i >= t.nsec THEN 0 ELSE (t.nsec - i) * Shl(128, sec_n(t, 0))

\* sum of 128 << t.sec_n(i) for i in range(t.nsec)
RECURSIVE DataLen(_, _)
DataLen(t, i) ==
    IF i >= t.nsec THEN 0 ELSE Shl(128, sec_n(t, i)) + DataLen(t, i + 1)

from_format(config, cyl, head) ==
    LET t0 == [cyl |-> cyl, head |-> head, iams |-> <<>>, sectors |-> <<>>,
               raw_iams |-> <<>>, raw_sectors |-> <<>>,
               nsec |-> config.secs, id0 |-> config.id, sz |-> config.sz,
               interleave |-> config.interleave, cskew |-> config.cskew,
               hskew |-> config.hskew,
               h |-> IF config.h = NoneVal THEN head ELSE config.h,
               gap_1 |-> IF config.iam
                         THEN (IF config.gap1 = NoneVal THEN GAP_1
                               ELSE config.gap1)
                         ELSE NoneVal,
               gap_2 |-> IF config.gap2 = NoneVal THEN GAP_2 ELSE config.gap2,
               gap_3 |-> IF config.gap3 = NoneVal THEN 0 ELSE config.gap3,
               gap_4a |-> IF config.gap4a = NoneVal
                          THEN (IF config.iam THEN 40 ELSE 16)
                          ELSE config.gap4a,
               rpm |-> config.rpm, tracklen_bc |-> 0, tracklen |-> 0]
        idx_sz == t0.gap_4a
                  + (IF t0.gap_1 # NoneVal THEN gap_presync + 1 + t0.gap_1
                     ELSE 0)
        idam_sz == gap_presync + 5 + 2 + t0.gap_2
        dam_sz_pre == gap_presync + 1
        dam_sz_post == 2 + t0.gap_3
        tracklen == 16 * (idx_sz
                          + (idam_sz + dam_sz_pre + dam_sz_post) * t0.nsec
                          + DataLen(t0, 0))
        rpm == config.rpm
        i == IF tracklen < (50000 * 300) \div rpm + 5000 THEN 0 ELSE 1
        rate == IF config.rate = 0 THEN Shl(125, i) ELSE config.rate
        tracklen_bc == (rate * 400 * 300) \div rpm
        auto == t0.nsec # 0 /\ config.gap3 = NoneVal
        gap_3 == IF auto
                 THEN Min(Max(0, tracklen_bc - tracklen) \div (16 * t0.nsec),
                          GAP_3[sec_n(t0, 0) + 1])
                 ELSE t0.gap_3
        tracklen2 == IF auto THEN tracklen + 16 * t0.nsec * gap_3
                     ELSE tracklen
    IN  IF t0.nsec # 0 /\ Len(t0.sz) = 0
        THEN Raise("IndexError", "list index out of range", "")
        ELSE Ok(construct_sectors(
                  [t0 EXCEPT !.gap_3 = gap_3,
                             !.tracklen = tracklen2,
                             !.tracklen_bc = Max(tracklen_bc, tracklen2)]))

----------------------------------------------------------------------------
(* fm.py: IBM_FM.raw_track.  The encoded track t is a sequence of 16-bit    *)
(* words, one for each byte of the track (len(t) // 2 is its length).      *)

\* heapq.merge(self.iams, self.sectors, key = start): the heads of the two
\* lists are compared, the first list wins a tie.
RECURSIVE Merge(_, _)
Merge(a, b) ==
    IF a = <<>> THEN b
    ELSE IF b = <<>> THEN a
    ELSE IF Head(a).start <= Head(b).start
         THEN <<Head(a)>> \o Merge(Tail(a), b)
         ELSE <<Head(b)>> \o Merge(a, Tail(b))

\* t with the gap bytes up to the presync of an area at bit offset start,
\* and the presync.
Presync(t, start) ==
    LET gap == Max((start \div 16) - gap_presync - Len(t), 0)
    IN  t \o Repeat(encode_list(gapbyte), gap) \o Repeat(encode_list(0), gap_presync)

\* A field: the mark with the sync clock, the bytes after it and the CRC
\* of both.
Field(b) == <<sync(b[1], 199)>> \o encode(Tail(b) \o packH(crc16(b)))

\* bytes([...]) takes values of range(0, 256) only.
IsByte(x) == 0 <= x /\ x <= 255

\* The words one area adds to t, or the ValueError of bytes().
EmitArea(t, a) ==
    IF a.kind = "IAM"
    THEN Ok(Presync(t, a.start) \o <<iam_sync_bytes>>)
    ELSE LET idam == <<IBM_FM_IDAM, a.idam.c, a.idam.h, a.idam.r, a.idam.n>>
         IN  IF \E i \in DOMAIN idam : ~IsByte(idam[i])
             THEN Raise("ValueError", "bytes must be in range(0, 256)", "")
             ELSE Ok(Presync(Presync(t, a.start) \o Field(idam),
                             a.dam.start)
                       \o Field(<<a.dam.mark>> \o a.dam.data))

RECURSIVE EmitAreas(_, _)
EmitNext(r, areas) == IF r.err # <<>> THEN r ELSE EmitAreas(r.val, areas)

EmitAreas(t, areas) ==
    IF areas = <<>> THEN Ok(t)
    ELSE EmitNext(EmitArea(t, Head(areas)), Tail(areas))

\* int((self.time_per_rev / self.clock) // 16): the quotient of two floats,
\* tracklen_bc up to rounding; short = 1 when the float quotient falls below
\* a multiple of 16 that tracklen_bc is.
TLen(t, short) ==
    IF t.tracklen_bc % 16 = 0 THEN t.tracklen_bc \div 16 - short
    ELSE t.tracklen_bc \div 16

\* raw_track(): the MasterTrack [bits, rpm], or the exception raised.
MasterTrack(t, short, r) ==
    IF r.err # <<>> THEN r
    ELSE Ok([bits |-> r.val \o Repeat(encode_list(gapbyte),
                                      Max(TLen(t, short) - Len(r.val), 0)),
             rpm |-> t.rpm, verify_revs |-> fm_default_revs])

raw_track(t, short) ==
    MasterTrack(t, short, EmitAreas(<<>>, Merge(t.iams, t.sectors)))

----------------------------------------------------------------------------
(* fm.py: IBM_FM.decode_raw.  A capture is what RawTrack.get_all_data()     *)
(* gives: [bits, revolutions], the bit cells of the whole capture and the   *)
(* number of bit cells of each revolution.                                 *)

\* The offsets of a search, in the order the search yields them.
RECURSIVE Ascending(_)
Ascending(S) ==
    IF S = {} THEN <<>>
    ELSE LET m == CHOOSE x \in S : \A y \in S : x <= y
         IN  <<m>> \o Ascending(S \ {m})

\* for offs in bits.itersearch(iam_sync): ...
IamAreas(offs) == [i \in DOMAIN offs |-> IAM(offs[i] + 16, offs[i] + 32)]

ScanIams(bits) == IamAreas(Ascending(itersearch(bits, iam_sync)))

\* A size code too great for the capture to hold its sector (128 << n is
\* then beyond every capture of the model).
MaxSizeCode == 16

\* One pass of the loop over bits.itersearch(sync_prefix): st = [idam,
\* areas], idam the pending ID mark (<<>> for None).
MarkStep(bits, st, o) ==
    LET offs == o + 16
        pending == [i \in DOMAIN st.idam |-> IDAMArea(st.idam[i])]
    IN  IF Len(bits) < offs + 16 THEN st
        ELSE LET mark == decode(bits, offs, 1)[1]
                 clock == decode(bits, offs - 1, 1)[1]
             IN  IF clock # 199 THEN st
                 ELSE IF mark = IBM_FM_IDAM
                 THEN IF Len(bits) < offs + 7 * 16 THEN st
                      ELSE LET b == decode(bits, offs, 7)
                           IN  [idam |-> <<IDAM(offs, offs + 7 * 16, crc16(b),
                                                b[2], b[3], b[4], b[5])>>,
                                areas |-> st.areas \o pending]
                 ELSE IF mark \in {IBM_FM_DAM, IBM_FM_DDAM}
                 THEN IF st.idam = <<>> \/ st.idam[1].end - offs > 1000
                      THEN [idam |-> <<>>,
                            areas |-> Append(st.areas,
                                        DAMArea(DAM(offs, offs + 4 * 16, 65535,
                                                    mark, <<>>)))]
                      ELSE IF st.idam[1].n > MaxSizeCode THEN st
                      ELSE LET sz == Shl(128, st.idam[1].n)
                               e == offs + (1 + sz + 2) * 16
                           IN  IF Len(bits) < e THEN st
                               ELSE LET b == decode(bits, offs, 1 + sz + 2)
                                        dam == DAM(offs, e, crc16(b), mark,
                                                   SubSeq(b, 2, sz + 1))
                                    IN  [idam |-> <<>>,
                                         areas |-> Append(st.areas,
                                                     Sector(st.idam[1], dam))]
                 ELSE st

RECURSIVE MarkLoop(_, _, _)
MarkLoop(bits, st, offs) ==
    IF offs = <<>> THEN st
    ELSE MarkLoop(bits, MarkStep(bits, st, Head(offs)), Tail(offs))

\* The areas without the ID mark left pending.
ScannedDropPending(st) == st.areas

\* 1. Calculate offsets within dump.
Scanned(st) == st.areas \o [i \in DOMAIN st.idam |-> IDAMArea(st.idam[i])]

ScanAreas(bits) ==
    Scanned(MarkLoop(bits, [idam |-> <<>>, areas |-> ScanIams(bits)],
                     Ascending(itersearch(bits, sync_prefix))))

\* Convert to offsets within track: rv = [p, n, k, out], n = NoneVal for
\* float('inf'), k the revolutions taken from the iterator.
RevStep(revolutions, rv, a) ==
    LET next == a.start >= rv.n /\ rv.n # NoneVal
        p == IF next THEN rv.n ELSE rv.p
    IN  [p |-> p,
         n |-> IF ~next THEN rv.n
               ELSE IF rv.k < Len(revolutions)
                    THEN rv.n + revolutions[rv.k + 1] ELSE NoneVal,
         k |-> IF next /\ rv.k < Len(revolutions) THEN rv.k + 1 ELSE rv.k,
         out |-> Append(rv.out, delta(a, p))]

RECURSIVE RevLoop(_, _, _)
RevLoop(revolutions, rv, areas) ==
    IF areas = <<>> THEN rv.out
    ELSE RevLoop(revolutions, RevStep(revolutions, rv, Head(areas)),
                 Tail(areas))

ToTrackOffsets(areas, revolutions) ==
    SortByStart(RevLoop(revolutions,
                        [p |-> 0, n |-> revolutions[1], k |-> 1,
                         out |-> <<>>],
                        SortByStart(areas)))

Abs(x) == IF x < 0 THEN -x ELSE x

\* for i, s in enumerate(list): if abs(s.start - a.start) < 1000: ...
\* The index of the first entry that close to a, 0 when there is none.
Near(list, a) ==
    LET I == {i \in DOMAIN list : Abs(list[i].start - a.start) < 1000}
    IN  IF I = {} THEN 0 ELSE CHOOSE i \in I : \A j \in I : i <= j

\* A dedup that merges nothing.
DedupIntoAppend(list, a) == Append(list, a)

\* A dedup that never replaces the entry it finds.
DedupIntoKeepFirst(list, a) ==
    IF Near(list, a) = 0 THEN Append(list, a) ELSE list

\* The list after area a is added to it.
DedupInto(list, a) ==
    LET i == Near(list, a)
    IN  IF i = 0 THEN Append(list, a)
        ELSE IF a.kind = "Sector" /\ list[i].crc # 0 /\ a.crc = 0
             THEN [list EXCEPT ![i] = a]
             ELSE list

\* Add to the deduped lists: d = [iams, sectors, merges]; merges records,
\* for the claims, each sector detection that met an entry of the list.
DedupStep(d, a) ==
    IF a.kind = "IAM" THEN [d EXCEPT !.iams = DedupInto(@, a)]
    ELSE IF a.kind = "Sector"
    THEN LET i == Near(d.sectors, a)
             l == DedupInto(d.sectors, a)
         IN  [d EXCEPT !.sectors = l,
                       !.merges = IF i = 0 THEN @
                                  ELSE Append(@, [i |-> i, old |-> d.sectors[i],
                                                  new |-> a, kept |-> l[i]])]
    ELSE d

RECURSIVE DedupLoop(_, _)
DedupLoop(d, areas) ==
    IF areas = <<>> THEN d
    ELSE DedupLoop(DedupStep(d, Head(areas)), Tail(areas))

\* IBM_FM.decode_raw on the lists iams and sectors.
IBM_FM_decode_raw(iams, sectors, capture) ==
    DedupLoop([iams |-> iams, sectors |-> sectors, merges |-> <<>>],
              ToTrackOffsets(ScanAreas(capture.bits), capture.revolutions))

\* nr_missing()
nr_missing(t) == Cardinality({i \in DOMAIN t.sectors : t.sectors[i].crc # 0})

----------------------------------------------------------------------------
(* fm.py: IBM_FM_Formatted: decode_raw, set_img_track, get_img_track and    *)
(* verify_track.                                                           *)

SameId(s, r) ==
    /\ s.idam.c = r.idam.c /\ s.idam.h = r.idam.h
    /\ s.idam.r = r.idam.r /\ s.idam.n = r.idam.n

\* A match that does not compare the ID fields.
MatchSectorAnyId(s, r) ==
    IF r.idam.crc # 0 THEN s
    ELSE IF r.dam.crc = 0 /\ s.dam.crc # 0
         THEN [s EXCEPT !.idam.crc = 0, !.dam.crc = 0, !.crc = 0,
                        !.dam.data = r.dam.data]
         ELSE [s EXCEPT !.idam.crc = 0]

\* A match that takes the payload of every valid detection.
MatchSectorOverwrite(s, r) ==
    IF r.idam.crc # 0 \/ ~SameId(s, r) THEN s
    ELSE IF r.dam.crc = 0
         THEN [s EXCEPT !.idam.crc = 0, !.dam.crc = 0, !.crc = 0,
                        !.dam.data = r.dam.data]
         ELSE [s EXCEPT !.idam.crc = 0]

\* The expected sector s after the raw sector r was looked at.
MatchSector(s, r) ==
    IF r.idam.crc # 0 \/ ~SameId(s, r) THEN s
    ELSE IF r.dam.crc = 0 /\ s.dam.crc # 0
         THEN [s EXCEPT !.idam.crc = 0, !.dam.crc = 0, !.crc = 0,
                        !.dam.data = r.dam.data]
         ELSE [s EXCEPT !.idam.crc = 0]

\* for r in self.raw_sectors: ... for s in self.sectors: ...
RECURSIVE MatchLoop(_, _, _)
MatchLoop(sectors, raw, k) ==
    IF k > Len(raw) THEN sectors
    ELSE MatchLoop([i \in DOMAIN sectors |-> MatchSector(sectors[i], raw[k])],
                   raw, k + 1)

\* IBM_FM_Formatted.decode_raw: [t, merges], the track after the call and
\* the merges of its dedup.
Matched(t, d) ==
    [t |-> [t EXCEPT !.raw_iams = d.iams, !.raw_sectors = d.sectors,
                     !.sectors = MatchLoop(@, d.sectors, 1)],
     merges |-> d.merges]

Formatted_decode_raw(t, capture) ==
    Matched(t, IBM_FM_decode_raw(t.raw_iams, t.raw_sectors, capture))

\* functools.reduce(lambda x, y: x + (128 << y.idam.n), self.sectors, 0)
RECURSIVE TotSize(_, _)
TotSize(sectors, i) ==
    IF i > Len(sectors) THEN 0
    ELSE Shl(128, sectors[i].idam.n) + TotSize(sectors, i + 1)

\* The loop that gives each sector, in the order of the IDs, its slice of
\* tdat.
RECURSIVE FillLoop(_, _, _, _)
FillLoop(sectors, tdat, i, pos) ==
    IF i > Len(sectors) THEN sectors
    ELSE LET size == Shl(128, sectors[i].idam.n)
         IN  FillLoop([sectors EXCEPT
                         ![i] = [@ EXCEPT !.crc = 0, !.idam.crc = 0,
                                          !.dam.crc = 0,
                                          !.dam.data = SubSeq(tdat, pos + 1,
                                                              pos + size)]],
                      tdat, i + 1, pos + size)

\* set_img_track(tdat): [t, totsize].
set_img_track(t, tdat) ==
    LET sorted == SortByR(t.sectors)
        totsize == TotSize(sorted, 1)
        padded == IF Len(tdat) < totsize
                  THEN tdat \o Repeat(0, totsize - Len(tdat)) ELSE tdat
    IN  [t |-> [t EXCEPT !.sectors =
                        SortByStart(FillLoop(sorted, padded, 1, 0))],
         totsize |-> totsize]

RECURSIVE Concat(_, _)
Concat(sectors, i) ==
    IF i > Len(sectors) THEN <<>>
    ELSE sectors[i].dam.data \o Concat(sectors, i + 1)

\* get_img_track()
get_img_track(t) == Concat(SortByR(t.sectors), 1)

\* The bit cells b read revs times over.
RECURSIVE Revs(_, _)
Revs(b, revs) == IF revs = 0 THEN <<>> ELSE b \o Revs(b, revs - 1)

\* What a read of the written track gives: revs revolutions of its bit
\* cells (MasterTrack.flux() and RawTrack.get_all_data() without loss).
Read(b, revs) == [bits |-> Revs(b, revs), revolutions |-> Repeat(Len(b), revs)]

Flux(mt, revs) == Read(WordBits(mt.bits), revs)

\* A scratch copy that keeps the checksums of the original.
ScratchKeepCrc(t) == [t EXCEPT !.raw_iams = <<>>, !.raw_sectors = <<>>]

\* The scratch copy of verify_track, every checksum reset to 0xffff.
Scratch(t) ==
    [t EXCEPT !.raw_iams = <<>>, !.raw_sectors = <<>>,
              !.sectors = [i \in DOMAIN t.sectors |->
                             Sector([t.sectors[i].idam EXCEPT !.crc = 65535],
                                    [t.sectors[i].dam EXCEPT !.crc = 65535])]]

\* verify_track(flux): [readback, ok], the scratch copy after the decode
\* and the value returned.  Areas are equal when every field is.
Verified(t, readback) ==
    [readback |-> readback,
     ok |-> IF nr_missing(readback) # 0 THEN FALSE
            ELSE t.sectors = readback.sectors]

verify_track(t, flux) ==
    Verified(t, Formatted_decode_raw(Scratch(t), flux).t)

----------------------------------------------------------------------------
(* The documents.  A line is what the patterns of get_format see in it.    *)

NoLine == [k |-> "none", name |-> "", spec |-> <<>>, fmt |-> "", key |-> "",
           val |-> WordV("")]
LBlank == [NoLine EXCEPT !.k = "blank"]
LEnd == [NoLine EXCEPT !.k = "end"]
\* a text that is no directive and no key=value assignment
LJunk == [NoLine EXCEPT !.k = "junk"]
LDisk(n) == [NoLine EXCEPT !.k = "disk", !.name = n]
LTracks(spec, f) == [NoLine EXCEPT !.k = "tracks", !.spec = spec, !.fmt = f]
LKv(key, val) == [NoLine EXCEPT !.k = "kv", !.key = key, !.val = val]

Star == [t |-> "star", s |-> 0, e |-> NoneVal, h |-> NoneVal]
BadSpec == [t |-> "bad", s |-> 0, e |-> NoneVal, h |-> NoneVal]
Rng(s, e, h) == [t |-> "rng", s |-> s, e |-> e, h |-> h]

\* Block structure and errors.
AlphaStructure ==
    {LBlank, LEnd, LJunk, LDisk("a"), LDisk("b"),
     LTracks(<<Star>>, "ibm.fm"), LTracks(<<Star>>, "bogus"),
     LKv("cyls", IntV(1)), LKv("heads", IntV(1)), LKv("cyls", IntV(0)),
     LKv("heads", WordV("x")), LKv("foo", IntV(1))}

\* Track lists.
AlphaTracks ==
    {LEnd, LDisk("a"),
     LKv("cyls", IntV(1)), LKv("cyls", IntV(2)), LKv("heads", IntV(1)),
     LKv("heads", IntV(2)),
     LTracks(<<Star>>, "ibm.fm"),
     LTracks(<<Rng(0, NoneVal, NoneVal)>>, "ibm.fm"),
     LTracks(<<Rng(0, 1, NoneVal)>>, "ibm.fm"),
     LTracks(<<Rng(1, NoneVal, 1)>>, "ibm.fm"),
     LTracks(<<Rng(0, NoneVal, NoneVal), Star>>, "ibm.fm"),
     LTracks(<<Star, BadSpec>>, "ibm.fm")}

\* Track options.
AlphaParams ==
    {LEnd, LDisk("a"), LKv("cyls", IntV(1)), LKv("heads", IntV(1)),
     LTracks(<<Star>>, "ibm.fm"),
     LKv("gap1", IntV(5)), LKv("gap1", WordV("auto")),
     LKv("iam", WordV("no")), LKv("iam", WordV("yes")),
     LKv("secs", IntV(1)), LKv("secs", IntV(257)),
     LKv("bps", IntV(128)), LKv("bps", IntV(100))}

\* The disk description of the concrete scenario.
Scenario ==
    <<LDisk("a"), LKv("cyls", IntV(40)), LKv("heads", IntV(1)),
      LTracks(<<Rng(0, 39, NoneVal)>>, "ibm.fm"),
      LKv("secs", IntV(9)), LKv("bps", IntV(512)), LKv("id", IntV(1)),
      LKv("interleave", IntV(2)), LKv("iam", WordV("yes")), LEnd, LEnd>>

\* The documents read: the lines of one alphabet in any order, or the
\* scenario.
Feeds == {"structure", "tracks", "params", "scenario"}

Alpha(f) ==
    CASE f = "structure" -> AlphaStructure
      [] f = "tracks" -> AlphaTracks
      [] f = "params" -> AlphaParams
      [] OTHER -> {}

\* The lines the document may hold after the nr lines read so far.
NextLines(nr) ==
    IF feed = "scenario"
    THEN IF nr < Len(Scenario) THEN {Scenario[nr + 1]} ELSE {}
    ELSE IF nr < MaxLines THEN Alpha(feed) ELSE {}

----------------------------------------------------------------------------
(* get_format as a state machine: one step for each line read, one for     *)
(* the end of the document.                                                *)

Locals == [parse_mode |-> parse_mode, active |-> active,
           disk_config |-> disk_config, tcs |-> tcs,
           track_config |-> track_config, hist |-> hist]

\* The directive structure of a line, for the history.
Tok(l) == IF l.k \in {"disk", "end", "tracks"} THEN <<[k |-> l.k, name |-> l.name]>>
          ELSE <<>>

FmtStart ==
    /\ name = "a"
    /\ linenr = 0
    /\ parse_mode = Outer
    /\ active = FALSE
    /\ disk_config = <<>>
    /\ tcs = <<>>
    /\ track_config = 0
    /\ pc = "parse"
    /\ err = <<>>
    /\ result = <<>>
    /\ line = NoLine
    /\ toks = <<>>
    /\ hist = <<>>
    /\ track = <<>>

MapIdle == cs = <<>>

LayIdle == lay = <<>> /\ img = <<>>

ScanIdle == scn = <<>> /\ conv = <<>>

TrkIdle ==
    /\ trk = <<>> /\ wr = <<>> /\ merges = <<>> /\ ndec = 0
    /\ LayIdle /\ ScanIdle

InitFmt == feed \in Feeds /\ FmtStart /\ MapIdle /\ TrkIdle

\* The exception leaves get_format: its local variables are gone.
Raised(e) ==
    /\ pc' = "error"
    /\ err' = <<e>>
    /\ parse_mode' = Outer
    /\ active' = FALSE
    /\ disk_config' = <<>>
    /\ tcs' = <<>>
    /\ track_config' = 0
    /\ hist' = <<>>
    /\ toks' = <<>>
    /\ UNCHANGED <<name, feed, result, track, cs, trkvars>>

\* The loop body for line l, given the branch r taken for its parse mode.
ReadLine(l, r) ==
    /\ linenr' = linenr + 1
    /\ line' = l
    /\ IF r.err # <<>> THEN Raised(Annotate(r.err[1], linenr + 1))
       ELSE /\ parse_mode' = r.val.parse_mode
            /\ active' = r.val.active
            /\ disk_config' = r.val.disk_config
            /\ tcs' = r.val.tcs
            /\ track_config' = r.val.track_config
            /\ hist' = r.val.hist
            /\ toks' = toks \o Tok(l)
            /\ UNCHANGED <<name, feed, pc, err, result, track, cs, trkvars>>

OuterLine ==
    /\ pc = "parse" /\ parse_mode = Outer
    /\ \E l \in NextLines(linenr) :
         ReadLine(l, IF l.k = "blank" THEN Ok(Locals) ELSE OuterStep(Locals, l))

DiskLine ==
    /\ pc = "parse" /\ parse_mode = Disk
    /\ \E l \in NextLines(linenr) :
         ReadLine(l, IF l.k = "blank" THEN Ok(Locals) ELSE DiskStep(Locals, l))

TrackLine ==
    /\ pc = "parse" /\ parse_mode = Track
    /\ \E l \in NextLines(linenr) :
         ReadLine(l, IF l.k = "blank" THEN Ok(Locals) ELSE TrackStep(Locals, l))

\* After the loop: return None, or finalise the disk and build the Format.
EndOfInput ==
    /\ pc = "parse"
    /\ feed = "scenario" => linenr = Len(Scenario)
    /\ LET r == IF disk_config = <<>> THEN Ok(<<>>)
                ELSE LET f == DiskFinalise(disk_config[1])
                     IN  IF f.err # <<>> THEN f
                         ELSE LET g == Format(f.val, tcs)
                              IN  IF g.err # <<>> THEN g ELSE Ok(<<g.val>>)
       IN  IF r.err # <<>>
           THEN /\ Raised(r.err[1])
                /\ UNCHANGED <<linenr, line>>
           ELSE /\ pc' = "done"
                /\ result' = r.val
                /\ UNCHANGED <<name, feed, linenr, parse_mode, active,
                               disk_config, tcs, track_config, err, line,
                               toks, hist, track, cs, trkvars>>

\* IBMTrackConfig.mk_track(cyl, head).  The module fm defines no name
\* IBM_FM_Config (its formatted track is built by IBM_FM_Formatted
\* .from_format), so the call of the else branch raises AttributeError.
IBMTrackConfig_mk_track(tc, cyl, head) ==
    IF tc.format_name = "ibm.mfm"
    THEN Ok([codec |-> "IBM_MFM_Config", cyl |-> cyl, head |-> head])
    ELSE Raise("AttributeError", "fm has no attribute IBM_FM_Config", "")

\* DiskConfig.mk_track(cyl, head) on the DiskConfig of the Format returned:
\* None off the track map, else what the template's mk_track gives.
mk_track(dc, heap, cyl, head) ==
    IF <<cyl, head>> \notin DOMAIN dc.track_map THEN Ok(<<>>)
    ELSE IBMTrackConfig_mk_track(heap[dc.track_map[<<cyl, head>>]], cyl, head)

\* Format.fmt(cyl, head) on the Format that get_format returned.
MkTrack ==
    /\ pc = "done" /\ result # <<>> /\ track = <<>>
    /\ \E cyl \in 0 .. result[1].fmt.cyls, head \in 0 .. 1 :
         track' = <<[cyl |-> cyl, head |-> head,
                     t |-> mk_track(result[1].fmt, tcs, cyl, head)]>>
    /\ UNCHANGED <<name, feed, linenr, parse_mode, active, disk_config, tcs,
                   track_config, pc, err, result, line, toks, hist, cs, trkvars>>

NextFmt == OuterLine \/ DiskLine \/ TrackLine \/ EndOfInput \/ MkTrack

SpecFmt == InitFmt /\ [][NextFmt]_vars

----------------------------------------------------------------------------
(* construct_sectors: the loop that fills sec_map, one pass at a step.      *)

Interleaves == (1 .. MaxInterleave) \cup {255}

InitMap ==
    /\ \E nsec \in 0 .. MaxSecs, interleave \in Interleaves,
          cyl \in 0 .. MaxSkew, head \in 0 .. 1,
          cskew \in 0 .. MaxSkew, hskew \in 0 .. 1 :
         cs = <<[nsec |-> nsec, interleave |-> interleave,
                 m |-> SecMapStart(nsec, cyl, head, cskew, hskew), i |-> 0]>>
    /\ feed = "none" /\ FmtStart /\ TrkIdle

\* for i in range(self.nsec): ...
PlaceStep ==
    /\ cs # <<>> /\ cs[1].i < cs[1].nsec
    /\ cs' = <<[cs[1] EXCEPT
                  !.m = PlaceSector(@, cs[1].nsec, cs[1].interleave, cs[1].i),
                  !.i = @ + 1]>>
    /\ UNCHANGED <<fmtvars, trkvars>>

NextMap == PlaceStep

SpecMap == InitMap /\ [][NextMap]_vars

----------------------------------------------------------------------------
(* A formatted track: image import, write and verify, decode of a capture.  *)

\* The templates: finalised IBMTrackConfig objects of 128-byte sectors, at
\* a data rate that keeps the track short.
Template(secs, id, iam) ==
    TrackFinalise([IBMTrackConfig("ibm.fm") EXCEPT
                     !.secs = secs, !.sz = <<0>>, !.id = id, !.iam = iam,
                     !.rate = 10]).val

Templates ==
    {Template(secs, id, iam) :
       secs \in 1 .. MaxTrkSecs, id \in {1, 255}, iam \in BOOLEAN}

\* The image buffers: shorter than a sector, longer than the track.
Ramp(k) == SubSeq([i \in 1 .. k |-> i % 256], 1, k)
Images == {Ramp(100), Ramp(128 * MaxTrkSecs + 44)}

InitTrk ==
    /\ \E config \in Templates :
         trk = <<from_format(config, 1, 0).val>>
    /\ wr = <<>> /\ merges = <<>> /\ ndec = 0
    /\ LayIdle /\ ScanIdle
    /\ feed = "none" /\ FmtStart /\ MapIdle

\* The write path: the image is set on a track built from the template,
\* before the track is written.
SetImgTrack ==
    /\ trk # <<>> /\ wr = <<>> /\ ndec = 0
    /\ \E tdat \in Images :
         \E r \in {set_img_track(trk[1], tdat)} :
            /\ trk' = <<r.t>>
            /\ img' = <<[tdat |-> tdat, totsize |-> r.totsize, out |-> <<>>]>>
    /\ UNCHANGED <<fmtvars, cs, wr, merges, ndec, lay, scn, conv>>

\* The damage a revolution of a capture may have: a flipped data bit in the
\* payload, or in the ID field, of the first sector.
Damages == {"none", "data", "id"}

Flip(bits, p) == [bits EXCEPT ![p] = 1 - @]

Damage(bits, s, base, dmg) ==
    IF dmg = "data" THEN Flip(bits, base + s.dam.start + 16 * 3 + 2)
    ELSE IF dmg = "id" THEN Flip(bits, base + s.idam.start + 16 * 3 + 2)
    ELSE bits

RECURSIVE DamageLoop(_, _, _, _, _)
DamageLoop(bits, s, n, dmg, k) ==
    IF k > Len(dmg) THEN bits
    ELSE DamageLoop(Damage(bits, s, (k - 1) * n, dmg[k]), s, n, dmg, k + 1)

\* The capture of the written track mt of t over Len(dmg) revolutions,
\* revolution k with the damage dmg[k].
Damaged(f, s, dmg) ==
    [f EXCEPT !.bits = DamageLoop(@, s, f.revolutions[1], dmg, 1)]

Capture(t, mt, dmg) == Damaged(Flux(mt, Len(dmg)), t.sectors[1], dmg)

\* raw_track(), the track written and read back over one revolution, with
\* or without a damaged bit, and verify_track() on the read; the track
\* object is discarded after the verify.
WriteVerify ==
    /\ trk # <<>> /\ wr = <<>> /\ ndec = 0
    /\ \E short \in 0 .. 1 :
         \E mt \in {raw_track(trk[1], short)} :
            IF mt.err # <<>>
            THEN wr' = <<[err |-> mt.err, dmg |-> "none", decoded |-> <<>>,
                          readback |-> <<>>, ok |-> FALSE]>>
            ELSE \E dmg \in Damages :
                    \E v \in {verify_track(
                                 trk[1], Capture(trk[1], mt.val, <<dmg>>))} :
                       wr' = <<[err |-> <<>>, dmg |-> dmg,
                                decoded |-> v.readback.raw_sectors,
                                readback |-> v.readback.sectors,
                                ok |-> v.ok]>>
    /\ UNCHANGED <<fmtvars, cs, trk, merges, ndec, lay, img, scn, conv>>

DecodeRaw ==
    /\ trk # <<>> /\ wr = <<>> /\ ndec < MaxDecodes
    /\ \E mt \in {raw_track(trk[1], 0)}, revs \in 1 .. MaxRevs :
         /\ mt.err = <<>>
         /\ \E dmg \in [1 .. revs -> Damages] :
              \E d \in {Formatted_decode_raw(
                           trk[1], Capture(trk[1], mt.val, dmg))} :
                 /\ trk' = <<d.t>>
                 /\ merges' = d.merges
    /\ ndec' = ndec + 1
    /\ UNCHANGED <<fmtvars, cs, wr, lay, img, scn, conv>>

NextTrk == SetImgTrack \/ WriteVerify \/ DecodeRaw

SpecTrk == InitTrk /\ [][NextTrk]_vars

----------------------------------------------------------------------------
(* from_format on a range of templates, and the image import and export.   *)

\* Most sectors of a laid-out track.
MaxLaySecs == 3

\* A finalised IBMTrackConfig with the given parameters (f is a record of
\* the fields set by add_param).
Config(f) ==
    TrackFinalise([k \in DOMAIN IBMTrackConfig("ibm.fm") |->
                     IF k \in DOMAIN f THEN f[k]
                     ELSE IBMTrackConfig("ibm.fm")[k]])

\* The templates laid out: every combination of sector count, size
\* schedule, interleave, index mark, gaps and data rate that finalise()
\* accepts.
Finalised(R) == {r.val : r \in {x \in R : x.err = <<>>}}

LayConfigs ==
    Finalised(
      {Config([secs |-> secs, sz |-> sz, interleave |-> il, iam |-> iam,
               gap1 |-> g.g1, gap2 |-> g.g2, gap3 |-> g.g3, gap4a |-> g.g4a,
               rate |-> rate]) :
         secs \in 0 .. MaxLaySecs, sz \in {<<>>, <<0>>, <<1, 0>>, <<2>>},
         il \in 1 .. 2, iam \in BOOLEAN, rate \in {0, 10, 25},
         g \in [g1 : {NoneVal, 0}, g2 : {NoneVal, 0}, g3 : {NoneVal, 0, 255},
                g4a : {NoneVal, 0}]})

\* The templates of the image import: sector count, size schedule,
\* interleave and cylinder skew.
ImgConfigs ==
    Finalised(
      {Config([secs |-> secs, sz |-> sz, interleave |-> il, cskew |-> cskew,
               id |-> id, rate |-> 10]) :
         secs \in 0 .. MaxLaySecs, sz \in {<<0>>, <<1, 0>>},
         il \in 1 .. 2, cskew \in 0 .. 1, id \in {0, 1}})

InitLay ==
    /\ \E config \in LayConfigs, cyl \in {1}, head \in 0 .. 1 :
         lay = <<[config |-> config, cyl |-> cyl, head |-> head]>>
    /\ trk = <<>> /\ wr = <<>> /\ merges = <<>> /\ ndec = 0
    /\ img = <<>> /\ ScanIdle
    /\ feed = "none" /\ FmtStart /\ MapIdle

InitImg ==
    /\ \E config \in ImgConfigs, cyl \in {1}, head \in {0} :
         lay = <<[config |-> config, cyl |-> cyl, head |-> head]>>
    /\ trk = <<>> /\ wr = <<>> /\ merges = <<>> /\ ndec = 0
    /\ img = <<>> /\ ScanIdle
    /\ feed = "none" /\ FmtStart /\ MapIdle

\* IBM_FM_Formatted.from_format(config, cyl, head)
FromFormat ==
    /\ lay # <<>> /\ trk = <<>>
    /\ trk' = <<from_format(lay[1].config, lay[1].cyl, lay[1].head).val>>
    /\ UNCHANGED <<fmtvars, cs, wr, merges, ndec, lay, img, scn, conv>>

\* get_img_track() after an import
GetImgTrack ==
    /\ trk # <<>> /\ img # <<>> /\ img[1].out = <<>>
    /\ img' = <<[img[1] EXCEPT !.out = <<get_img_track(trk[1])>>]>>
    /\ UNCHANGED <<fmtvars, cs, trk, wr, merges, ndec, lay, scn, conv>>

NextLay == FromFormat

SpecLay == InitLay /\ [][NextLay]_vars

NextImg == FromFormat \/ SetImgTrack \/ GetImgTrack

SpecImg == InitImg /\ [][NextImg]_vars

----------------------------------------------------------------------------
(* decode_raw: the conversion of the areas to offsets within the track,    *)
(* one pass of its loop at a time.                                         *)

\* Most revolutions of a capture and most areas detected in it.
MaxConvRevs == 3
MaxAreas == 3

\* The lengths a revolution may have, and the grid of the offsets at which
\* an area may be detected.
RevLens == {2000, 3000}
Grid == 1000

RECURSIVE Total(_)
Total(revolutions) ==
    IF revolutions = <<>> THEN 0
    ELSE Head(revolutions) + Total(Tail(revolutions))

\* The area of the given kind detected at offset o of the capture.
AreaAt(kind, o) ==
    IF kind = "IAM" THEN IAM(o, o + 16)
    ELSE Sector(IDAM(o, o + 7 * 16, 0, 0, 0, 1, 0),
                DAM(o + 24 * 16, o + 155 * 16, 0, IBM_FM_DAM, <<>>))

InitConv ==
    /\ \E n \in 1 .. MaxConvRevs :
         \E revolutions \in [1 .. n -> RevLens], kind \in {"IAM", "Sector"} :
            \E S \in SUBSET {Grid * g : g \in 0 .. Total(revolutions) \div Grid} :
               /\ Cardinality(S) <= MaxAreas
               /\ \A o \in S : o < Total(revolutions)
               /\ conv = <<[revolutions |-> revolutions,
                            areas |-> SortByStart(
                                        [i \in 1 .. Cardinality(S) |->
                                           AreaAt(kind, Ascending(S)[i])]),
                            st |-> [p |-> 0, n |-> revolutions[1], k |-> 1,
                                    out |-> <<>>],
                            sorted |-> <<>>]>>
    /\ scn = <<>>
    /\ trk = <<>> /\ wr = <<>> /\ merges = <<>> /\ ndec = 0 /\ LayIdle
    /\ feed = "none" /\ FmtStart /\ MapIdle

\* for a in areas: ... a.delta(p)
ConvStep ==
    /\ conv # <<>> /\ Len(conv[1].st.out) < Len(conv[1].areas)
    /\ conv' = <<[conv[1] EXCEPT
                    !.st = RevStep(conv[1].revolutions, @,
                                   conv[1].areas[Len(conv[1].st.out) + 1])]>>
    /\ UNCHANGED <<fmtvars, cs, trk, wr, merges, ndec, lay, img, scn>>

\* areas.sort(key=lambda x:x.start), after the loop
ConvSort ==
    /\ conv # <<>> /\ Len(conv[1].st.out) = Len(conv[1].areas)
    /\ conv[1].sorted = <<>>
    /\ conv' = <<[conv[1] EXCEPT !.sorted = <<SortByStart(conv[1].st.out)>>]>>
    /\ UNCHANGED <<fmtvars, cs, trk, wr, merges, ndec, lay, img, scn>>

NextConv == ConvStep \/ ConvSort

SpecConv == InitConv /\ [][NextConv]_vars

----------------------------------------------------------------------------
(* decode_raw on an IBM_FM object with empty lists: the scan of a capture  *)
(* for marks, one offset of the search at a time, then the conversion and  *)
(* the dedup.                                                              *)

\* Most marks written to a capture.
MaxMarks == 3

\* The gap bytes before the presync of a mark: the default post-ID gap,
\* and one that puts the mark more than 1000 bit-cells behind the field
\* before it.
ShortGap == GAP_2
LongGap == 70

\* Bit cells missing at the end of a capture: none, or the eight gap bytes
\* after the last field and the last two bytes of the field.
Cuts == {0, 160}

Payload == Repeat(229, 128)

\* The bytes of a field as raw_track writes them: an ID field of sector j
\* with size code 0, or a data field with a data or deleted-data mark.
ItemBytes(kind, j) ==
    IF kind = "IDAM" THEN <<IBM_FM_IDAM, 1, 0, j, 0>>
    ELSE IF kind = "DAM" THEN <<IBM_FM_DAM>> \o Payload
    ELSE <<IBM_FM_DDAM>> \o Payload

\* The fields a capture may hold, each with the gap before its presync.
Items ==
    {[kind |-> "IDAM", gap |-> ShortGap], [kind |-> "DAM", gap |-> ShortGap],
     [kind |-> "DAM", gap |-> LongGap], [kind |-> "DDAM", gap |-> ShortGap]}

RECURSIVE StreamWords(_, _)
StreamWords(items, j) ==
    IF j > Len(items) THEN Repeat(encode_list(gapbyte), 8)
    ELSE Repeat(encode_list(gapbyte), items[j].gap)
           \o Repeat(encode_list(0), gap_presync)
           \o Field(ItemBytes(items[j].kind, j))
           \o StreamWords(items, j + 1)

\* The bit cells of a capture of one revolution that holds the items.
CutShort(b, cut) == SubSeq(b, 1, Len(b) - cut)

StreamBits(items, cut) == CutShort(WordBits(StreamWords(items, 1)), cut)

InitScan ==
    /\ \E n \in 1 .. MaxMarks, cut \in Cuts :
         \E items \in [1 .. n -> Items] :
            scn = <<[items |-> items, bits |-> StreamBits(items, cut),
                     pc |-> "iams", offs |-> <<>>,
                     st |-> [idam |-> <<>>, areas |-> <<>>],
                     marks |-> <<>>, iams |-> <<>>, sectors |-> <<>>]>>
    /\ conv = <<>>
    /\ trk = <<>> /\ wr = <<>> /\ merges = <<>> /\ ndec = 0 /\ LayIdle
    /\ feed = "none" /\ FmtStart /\ MapIdle

\* for offs in bits.itersearch(iam_sync): ..., and the search for
\* sync_prefix
ScanStart ==
    /\ scn # <<>> /\ scn[1].pc = "iams"
    /\ scn' = <<[scn[1] EXCEPT
                   !.pc = "marks",
                   !.st = [idam |-> <<>>, areas |-> ScanIams(scn[1].bits)],
                   !.offs = Ascending(itersearch(scn[1].bits, sync_prefix))]>>
    /\ UNCHANGED <<fmtvars, cs, trk, wr, merges, ndec, lay, img, conv>>

\* What one pass of the loop made of the match at o - 16: an ID mark taken
\* as the pending one, a data mark recorded (paired or isolated), or
\* nothing.
Recognised(st, st2, o) ==
    IF st2.idam # <<>> /\ st2.idam[1].start = o THEN <<[kind |-> "IDAM", offs |-> o]>>
    ELSE IF /\ Len(st2.areas) > Len(st.areas)
            /\ st2.areas[Len(st2.areas)].kind \in {"DAM", "Sector"}
            /\ st2.areas[Len(st2.areas)].dam.start = o
         THEN <<[kind |-> "DAM", offs |-> o]>>
         ELSE <<>>

\* One pass of the loop over bits.itersearch(sync_prefix).
MarkNext ==
    /\ scn # <<>> /\ scn[1].pc = "marks" /\ scn[1].offs # <<>>
    /\ \E st2 \in {MarkStep(scn[1].bits, scn[1].st, Head(scn[1].offs))} :
         scn' = <<[scn[1] EXCEPT
                     !.st = st2,
                     !.offs = Tail(@),
                     !.marks = @ \o Recognised(scn[1].st, st2,
                                               Head(scn[1].offs) + 16)]>>
    /\ UNCHANGED <<fmtvars, cs, trk, wr, merges, ndec, lay, img, conv>>

\* The rest of decode_raw: the pending ID mark, the conversion to offsets
\* within the track and the dedup into the lists of the object.
Deduped(sc, d) ==
    [sc EXCEPT !.pc = "done", !.iams = d.iams, !.sectors = d.sectors]

ScanFinish ==
    /\ scn # <<>> /\ scn[1].pc = "marks" /\ scn[1].offs = <<>>
    /\ \E areas \in {Scanned(scn[1].st)} :
         scn' = <<Deduped([scn[1] EXCEPT !.st = [idam |-> <<>>,
                                                 areas |-> areas]],
                          DedupLoop([iams |-> <<>>, sectors |-> <<>>,
                                     merges |-> <<>>],
                                    ToTrackOffsets(areas,
                                                   <<Len(scn[1].bits)>>)))>>
    /\ UNCHANGED <<fmtvars, cs, trk, wr, merges, ndec, lay, img, conv>>

NextScan == ScanStart \/ MarkNext \/ ScanFinish

SpecScan == InitScan /\ [][NextScan]_vars

----------------------------------------------------------------------------
(* IBM_FM_Formatted.decode_raw on captures given by the areas that the     *)
(* scan detects in them: the conversion, the dedup into the raw lists and  *)
(* the merge into the expected sectors.                                    *)

\* Most captures decoded into one track object.
MaxCaptures == 2

\* The bit cells of a revolution of these captures.
RevBits == 6000

\* A CRC residue that is not 0.
BadCrc == 4660

DataA == Repeat(165, 128)
DataB == Repeat(90, 128)

\* What the scan may detect at an offset: an index mark, or a sector with
\* the ID r of an expected sector or another one, each checksum valid or
\* not, and one of two payloads.
Detections ==
    {[kind |-> "IAM", r |-> 0, idcrc |-> 0, damcrc |-> 0, data |-> <<>>]}
    \cup {[kind |-> "Sector", r |-> 1, idcrc |-> f.i, damcrc |-> f.d,
           data |-> f.data] :
            f \in {[i |-> 0, d |-> 0, data |-> DataA],
                   [i |-> 0, d |-> 0, data |-> DataB],
                   [i |-> 0, d |-> BadCrc, data |-> DataB],
                   [i |-> BadCrc, d |-> 0, data |-> DataB]}}
    \cup {[kind |-> "Sector", r |-> 9, idcrc |-> 0, damcrc |-> 0,
           data |-> DataB]}

\* The offsets within the capture at which an area may be detected: two in
\* the first revolution and one in the second, each less than 1000
\* bit-cells from the next within the track, the first and the last more
\* than 1000 bit-cells apart.
DecOffsets == {1264, 1864, RevBits + 2464}

\* The area the scan makes of detection x at offset o, for track t.
Detected(t, x, o) ==
    IF x.kind = "IAM" THEN IAM(o, o + 16)
    ELSE Sector(IDAM(o, o + 7 * 16, x.idcrc, t.cyl, t.h, x.r, 0),
                DAM(o + 24 * 16, o + 155 * 16, x.damcrc, IBM_FM_DAM, x.data))

\* The areas of a capture with a detection at each offset of O, in the
\* order of the offsets.
AreasOf(t, O, det) ==
    [i \in 1 .. Cardinality(O) |->
       Detected(t, det[Ascending(O)[i]], Ascending(O)[i])]

InitDec ==
    /\ trk = <<from_format(Template(2, 1, TRUE), 1, 0).val>>
    /\ wr = <<>> /\ merges = <<>> /\ ndec = 0
    /\ LayIdle /\ ScanIdle
    /\ feed = "none" /\ FmtStart /\ MapIdle

\* decode_raw(track) on the capture whose scan detects the areas drawn.
DecodeAreas ==
    /\ trk # <<>> /\ wr = <<>> /\ ndec < MaxCaptures
    /\ \E O \in SUBSET DecOffsets :
         /\ O # {} /\ Cardinality(O) <= MaxAreas
         /\ \E det \in [O -> Detections] :
              \E d \in {Matched(trk[1],
                                 DedupLoop([iams |-> trk[1].raw_iams,
                                            sectors |-> trk[1].raw_sectors,
                                            merges |-> <<>>],
                                           ToTrackOffsets(
                                              AreasOf(trk[1], O, det),
                                              <<RevBits, RevBits>>)))} :
                 /\ trk' = <<d.t>>
                 /\ merges' = d.merges
    /\ ndec' = ndec + 1
    /\ UNCHANGED <<fmtvars, cs, wr, lay, img, scn, conv>>

NextDec == DecodeAreas

SpecDec == InitDec /\ [][NextDec]_vars

----------------------------------------------------------------------------
(* Properties of get_format *)

\* A line was read in this step, and parsing goes on.
LineRead == pc = "parse" /\ linenr' = linenr + 1
LineAccepted == LineRead /\ pc' = "parse"

TrackMap == disk_config[1].track_map

Range(f) == {f[i] : i \in DOMAIN f}

\* The positions the C[-C2][.H] elements of a track list name.
ExplicitCover(dc, spec) ==
    {p \in AllTracks(dc) :
       \E i \in DOMAIN spec :
          /\ spec[i].t = "rng"
          /\ spec[i].s <= p[1]
          /\ p[1] <= (IF spec[i].e = NoneVal THEN spec[i].s ELSE spec[i].e)
          /\ spec[i].h \in {NoneVal, p[2]}}

\* A tracks directive holding '*' was applied in the active disk block, after
\* earlier track assignments.
StarDirectiveApplied ==
    /\ LineAccepted /\ active /\ parse_mode = Disk
    /\ line'.k = "tracks" /\ Star \in Range(line'.spec)
    /\ DOMAIN TrackMap # {}

\* C4 as stated: a tracks directive holding '*' leaves every position that
\* was assigned with its template, and gives the new template to exactly the
\* positions of cyls x heads that were unassigned.
C4_AsStated ==
    [][StarDirectiveApplied =>
         /\ \A p \in DOMAIN TrackMap : TrackMap'[p] = TrackMap[p]
         /\ {p \in DOMAIN TrackMap' : TrackMap'[p] = track_config'}
              = AllTracks(disk_config[1]) \ DOMAIN TrackMap]_vars

\* C4 amended: a tracks directive holding '*' leaves every assigned position
\* that no C[-C2][.H] element of the same directive names with its template,
\* and gives the new template to exactly the positions that were unassigned
\* or that such an element names.
C4_WildcardNonOverwrite ==
    [][StarDirectiveApplied =>
         LET E == ExplicitCover(disk_config[1], line'.spec)
         IN  /\ \A p \in DOMAIN TrackMap \ E : TrackMap'[p] = TrackMap[p]
             /\ {p \in DOMAIN TrackMap' : TrackMap'[p] = track_config'}
                  = (AllTracks(disk_config[1]) \ DOMAIN TrackMap) \cup E]_vars

\* C4 witness: a '*' directive has been applied, an earlier position kept
\* its template and another position received the new one.
C4_Witness ==
    /\ pc = "parse" /\ parse_mode = Track /\ active
    /\ line.k = "tracks" /\ Star \in Range(line.spec)
    /\ \E p, q \in DOMAIN TrackMap :
         TrackMap[p] # track_config /\ TrackMap[q] = track_config

\* The template of the first / last element of the history with P that
\* matched position p (0 when there is none).
FirstMatch(p, P(_)) ==
    LET I == {i \in DOMAIN hist : P(hist[i]) /\ p \in hist[i].pos}
    IN  IF I = {} THEN 0
        ELSE hist[CHOOSE i \in I : \A j \in I : i <= j].tc
LastMatch(p, P(_)) ==
    LET I == {i \in DOMAIN hist : P(hist[i]) /\ p \in hist[i].pos}
    IN  IF I = {} THEN 0
        ELSE hist[CHOOSE i \in I : \A j \in I : i >= j].tc

AnyElement(h) == TRUE
IsExplicit(h) == ~h.wild
IsWild(h) == h.wild

\* C5 as stated: the template mapped to a position is the one of the first
\* directive that matched it.
C5_AsStated ==
    disk_config # <<>> =>
       \A p \in DOMAIN TrackMap : TrackMap[p] = FirstMatch(p, AnyElement)

\* C5 amended: the template mapped to a position is the one of the last
\* C[-C2][.H] element that named it or, when no such element named it, of the
\* first '*' that found it unassigned.
C5_LastExplicitElseFirstStar ==
    disk_config # <<>> =>
       \A p \in DOMAIN TrackMap :
          TrackMap[p] = IF LastMatch(p, IsExplicit) # 0
                        THEN LastMatch(p, IsExplicit)
                        ELSE FirstMatch(p, IsWild)

\* C5 witness: a position holds the template of a later directive than the
\* first that matched it.
C5_Witness ==
    /\ disk_config # <<>>
    /\ \E p \in DOMAIN TrackMap :
         /\ TrackMap[p] # FirstMatch(p, AnyElement)
         /\ TrackMap[p] = LastMatch(p, IsExplicit)

\* C6: when the end of a track block of the active disk is read and the
\* block's template has a numeric gap1 and iam = no, get_format raises the
\* fatal error "gap1 specified but no iam"; an error never returns a Format.
C6_Gap1WithoutIamRejected ==
    /\ [][(/\ LineRead /\ parse_mode = Track /\ active /\ line' = LEnd
           /\ track_config # 0
           /\ tcs[track_config].gap1 # NoneVal
           /\ ~tcs[track_config].iam)
          => (/\ pc' = "error"
              /\ err'[1].type = "Fatal"
              /\ err'[1].msg = "gap1 specified but no iam"
              /\ result' = <<>>)]_vars
    /\ [](pc = "error" => result = <<>>)

\* C6 witness: the error was raised at the end of a track block.
C6_Witness ==
    /\ pc = "error" /\ line = LEnd
    /\ err[1].msg = "gap1 specified but no iam"

\* The names of the disk blocks a document declares: the disk headers that
\* stand outside every block (depth 0 of the directive structure).
RECURSIVE Declared(_, _)
Declared(ts, depth) ==
    IF ts = <<>> THEN {}
    ELSE LET t == Head(ts)
         IN  IF depth = 0
             THEN (IF t.k = "disk" THEN {t.name} ELSE {})
                    \cup Declared(Tail(ts), IF t.k = "disk" THEN 1 ELSE 0)
             ELSE IF t.k = "end" THEN Declared(Tail(ts), depth - 1)
             ELSE IF t.k = "tracks" /\ depth = 1 THEN Declared(Tail(ts), 2)
             ELSE Declared(Tail(ts), depth)

\* C8: when get_format returns, it returns None exactly when the document
\* declares no disk block of the requested name; otherwise it returns a
\* Format that wraps the finalised DiskConfig of that block.
C8_NoneIffNoBlock ==
    pc = "done" =>
       /\ (result = <<>>) <=> (name \notin Declared(toks, 0))
       /\ result # <<>> =>
            /\ result[1].fmt = disk_config[1]
            /\ result[1].fmt.cyls # NoneVal /\ result[1].fmt.heads # NoneVal

\* C8 witness: a Format is returned for a document that also declares a
\* block of another name.
C8_Witness ==
    /\ pc = "done" /\ result # <<>>
    /\ Declared(toks, 0) = {"a", "b"}

\* C9 as stated: every error get_format raises carries the number of the
\* line read last, and no Format is returned.
C9_AsStated ==
    pc = "error" =>
       /\ err[1].line >= 1 /\ err[1].line = linenr
       /\ result = <<>>

\* A line that is no directive and no key=value assignment was read inside
\* a disk block of another name.
JunkInSkippedBlock ==
    /\ LineRead /\ parse_mode \in {Disk, Track} /\ ~active
    /\ line' = LJunk

\* C10 as stated: such a line makes get_format raise a fatal syntax error.
C10_AsStated ==
    [][JunkInSkippedBlock =>
         (pc' = "error" /\ err'[1].msg = "syntax error")]_vars

\* C10 amended: inside a disk block of another name such a line is skipped
\* (no error, the parser state is unchanged); it is a fatal syntax error,
\* with its line number, outside every block and inside the requested block.
C10_SkippedBlocksNotChecked ==
    /\ [][JunkInSkippedBlock =>
            (/\ pc' = "parse"
             /\ UNCHANGED <<parse_mode, active, disk_config, tcs,
                            track_config, result>>)]_vars
    /\ [][(LineRead /\ line' = LJunk /\ (parse_mode = Outer \/ active)) =>
            (/\ pc' = "error"
             /\ err'[1].type = "Fatal" /\ err'[1].msg = "syntax error"
             /\ err'[1].line = linenr')]_vars

\* C10 witness: a junk line was read inside a block of another name and
\* parsing went on.
C10_Witness ==
    /\ pc = "parse" /\ line = LJunk /\ ~active /\ parse_mode \in {Disk, Track}

\* The scenario document was compiled and the track of cylinder 10, head 0
\* was asked of the Format returned.
ScenarioTrackMade ==
    /\ feed = "scenario" /\ pc = "done" /\ result # <<>>
    /\ track # <<>> /\ track[1].cyl = 10 /\ track[1].head = 0

\* C7 as stated: the scenario compiles to a Format whose default revolution
\* count is 2 and whose track for cylinder 10, head 0 has 9 sectors with the
\* IDs 1, 6, 2, 7, 3, 8, 4, 9, 5 in rotational order.
C7_AsStated ==
    ScenarioTrackMade =>
       /\ result[1].default_revs = 2
       /\ track[1].t.err = <<>>
       /\ track[1].t.val # <<>>
       /\ track[1].t.val.nsec = 9
       /\ [i \in 1 .. 9 |-> track[1].t.val.sectors[i].idam.r]
            = <<1, 6, 2, 7, 3, 8, 4, 9, 5>>

----------------------------------------------------------------------------
(* Properties of construct_sectors *)

Slots == 0 .. cs[1].nsec - 1
SlotsOf(x) == {s \in Slots : cs[1].m.sec_map[s] = x}

Gcd(a, b) == CHOOSE d \in 1 .. a : /\ a % d = 0 /\ b % d = 0
                                   /\ \A e \in 1 .. a :
                                        (a % e = 0 /\ b % e = 0) => e <= d

\* C2: in construct_sectors the search for a free slot always finds one,
\* after i passes the sectors 0..i-1 stand in exactly one slot each, and after
\* the last pass no slot is unassigned: sec_map is a bijection from the slots
\* to the sectors.
C2_SecMapBijection ==
    cs # <<>> =>
       /\ cs[1].m.pos # NoneVal
       /\ cs[1].i < cs[1].nsec =>
            FreeSlot(cs[1].m.sec_map, cs[1].nsec, cs[1].m.pos, cs[1].nsec)
               \in Slots
       /\ \A x \in 0 .. cs[1].i - 1 : Cardinality(SlotsOf(x)) = 1
       /\ Cardinality(SlotsOf(-1)) = cs[1].nsec - cs[1].i
       /\ cs[1].i = cs[1].nsec =>
            {cs[1].m.sec_map[s] : s \in Slots} = 0 .. cs[1].nsec - 1

\* C2 witness: the map is complete for an interleave that is not coprime
\* with the sector count, and it is not the identity.
C2_Witness ==
    /\ cs # <<>> /\ cs[1].nsec >= 4 /\ cs[1].i = cs[1].nsec
    /\ Gcd(cs[1].nsec, cs[1].interleave) > 1
    /\ \E s \in Slots : cs[1].m.sec_map[s] # s

----------------------------------------------------------------------------
(* Properties of the formatted track *)

\* The sector r decoded from the read carries the ID fields and the
\* payload of the sector s of the track.
Reproduces(r, s) == SameId(s, r) /\ r.dam.data = s.dam.data

\* C1 as stated: the track written by raw_track() and decoded as a single
\* revolution gives back every sector's ID fields and payload, and
\* verify_track on that read returns true.
C1_AsStated ==
    wr # <<>> /\ wr[1].dmg = "none" =>
       /\ wr[1].err = <<>>
       /\ Len(wr[1].decoded) = Len(trk[1].sectors)
       /\ \A i \in DOMAIN trk[1].sectors :
            Reproduces(wr[1].decoded[i], trk[1].sectors[i])
       /\ wr[1].ok

\* C3: in the dedup of decode_raw, a sector detection that meets an entry of
\* the list within 1000 bit-cells never replaces a valid entry, replaces an
\* invalid entry when it is valid itself, and the entry kept valid is still
\* in the list when decode_raw returns.
C3_DedupKeepsValid ==
    \A k \in DOMAIN merges :
       LET m == merges[k]
       IN  /\ Abs(m.old.start - m.new.start) < 1000
           /\ m.old.crc = 0 => m.kept = m.old
           /\ (m.old.crc # 0 /\ m.new.crc = 0) => m.kept = m.new
           /\ (m.old.crc # 0 /\ m.new.crc # 0) => m.kept = m.old
           /\ m.kept.crc = 0 => trk[1].raw_sectors[m.i] = m.kept

\* C3 witness: a decode merged a valid detection into an invalid entry of
\* an earlier revolution, and the list holds the valid one.
C3_Witness ==
    /\ ndec > 0
    /\ \E k \in DOMAIN merges :
         /\ merges[k].old.crc # 0 /\ merges[k].new.crc = 0
         /\ trk[1].raw_sectors[merges[k].i].crc = 0

\* C11: verify_track returns true only if no sector of the scratch copy is
\* left missing or invalid, the scratch copy equals the original sector for
\* sector (ID fields, checksum state, offsets and payload), and, the scratch
\* checksums having been reset, every original sector was found in the
\* read-back with valid checksums, its ID fields and its payload.
FoundIn(decoded, s) ==
    \E k \in DOMAIN decoded :
       /\ decoded[k].idam.crc = 0 /\ decoded[k].dam.crc = 0
       /\ SameId(s, decoded[k])
       /\ decoded[k].dam.data = s.dam.data

C11_VerifyIsStrict ==
    (wr # <<>> /\ wr[1].ok) =>
       /\ \A i \in DOMAIN wr[1].readback : wr[1].readback[i].crc = 0
       /\ wr[1].readback = trk[1].sectors
       /\ \A i \in DOMAIN trk[1].sectors :
            /\ trk[1].sectors[i].crc = 0
            /\ FoundIn(wr[1].decoded, trk[1].sectors[i])

\* A verify that returned true on a track of two sectors, and the same
\* tracks verify false when the read-back has a damaged bit.
C11_Witness ==
    /\ wr # <<>> /\ wr[1].ok /\ wr[1].dmg = "none"
    /\ Len(trk[1].sectors) = 2

\* C12: set_img_track(buf) returns T, the sum of 128 << n over the sectors,
\* and leaves the sectors in ascending order of their start; the sector
\* with the k-th smallest ID holds the k-th slice of buf zero-padded to T;
\* a following get_img_track() returns the first T bytes of the padded buf.
RECURSIVE SizesBelow(_, _)
SizesBelow(sectors, r) ==
    IF sectors = <<>> THEN 0
    ELSE (IF Head(sectors).idam.r < r THEN Shl(128, Head(sectors).idam.n)
          ELSE 0) + SizesBelow(Tail(sectors), r)

Padded(buf, n) ==
    [i \in 1 .. n |-> IF i <= Len(buf) THEN buf[i] ELSE 0]

C12_ImageRoundTrip ==
    img # <<>> =>
       LET sectors == trk[1].sectors
           T == SizesBelow(sectors, 1000)
           buf == Padded(img[1].tdat, T)
       IN  /\ img[1].totsize = T
           /\ \A i \in DOMAIN sectors :
                /\ i > 1 => sectors[i - 1].start <= sectors[i].start
                /\ sectors[i].dam.data =
                     [j \in 1 .. Shl(128, sectors[i].idam.n) |->
                        buf[SizesBelow(sectors, sectors[i].idam.r) + j]]
           /\ img[1].out # <<>> => img[1].out[1] = buf

\* An export after the import of a buffer shorter than T into a track
\* whose rotational order is not the order of the IDs and whose sectors
\* differ in size.
C12_Witness ==
    /\ img # <<>> /\ img[1].out # <<>>
    /\ Len(img[1].tdat) < img[1].totsize
    /\ \E i, j \in DOMAIN trk[1].sectors :
         /\ i < j /\ trk[1].sectors[i].idam.r > trk[1].sectors[j].idam.r
         /\ trk[1].sectors[i].idam.n # trk[1].sectors[j].idam.n

\* C13 as stated: every track template in the track map of a Format that
\* get_format returned is finalised and satisfies the template invariants
\* (gap1 set only with the index mark enabled, a size schedule when there
\* are sectors), on whatever line the document ends.
TemplateOk(tc) ==
    /\ tc.finalised
    /\ tc.gap1 # NoneVal => tc.iam
    /\ tc.secs = 0 \/ Len(tc.sz) # 0

C13_AsStated ==
    (pc = "done" /\ result # <<>>) =>
       \A p \in DOMAIN result[1].fmt.track_map :
          TemplateOk(tcs[result[1].fmt.track_map[p]])

\* C14 as stated: every area converted by decode_raw has had the start of
\* its revolution subtracted, the greatest revolution boundary that is not
\* beyond its offset within the capture, also when a revolution holds no
\* detected area.
RECURSIVE RevStart(_, _, _)
RevStart(revolutions, base, o) ==
    IF revolutions = <<>> \/ o < base + Head(revolutions) THEN base
    ELSE RevStart(Tail(revolutions), base + Head(revolutions), o)

C14_AsStated ==
    conv # <<>> =>
       \A j \in DOMAIN conv[1].st.out :
          conv[1].st.out[j].start =
             conv[1].areas[j].start
             - RevStart(conv[1].revolutions, 0, conv[1].areas[j].start)

\* C15 as stated: a data mark is paired into a Sector only when it lies
\* within 1000 bit-cells after the pending ID mark; a data mark farther than
\* that is recorded as an isolated data area.
C15_AsStated ==
    scn # <<>> =>
       \A i \in DOMAIN scn[1].st.areas :
          scn[1].st.areas[i].kind = "Sector" =>
             scn[1].st.areas[i].dam.start - scn[1].st.areas[i].idam.end
                <= 1000

\* C16: after one decode_raw into empty lists no two entries of the IAM
\* list, and no two entries of the sector list, have starts within the
\* track that differ by fewer than 1000 bit-cells.
Separated(list) ==
    \A i, j \in DOMAIN list :
       i # j => Abs(list[i].start - list[j].start) >= 1000

C16_DedupSeparates ==
    (trk # <<>> /\ ndec = 1) =>
       /\ Separated(trk[1].raw_iams)
       /\ Separated(trk[1].raw_sectors)

\* A first decode of three sector detections, each within 1000 bit-cells
\* of the next and the last in the second revolution: the second replaced
\* the first in the list and the third was merged into it.
C16_Witness ==
    /\ trk # <<>> /\ ndec = 1
    /\ Len(merges) = 2
    /\ merges[1].kept = merges[1].new
    /\ Len(trk[1].raw_sectors) = 1

\* C17: in the scan of decode_raw every Sector pairs a data mark with the
\* recognised ID mark that precedes it with no recognised mark between
\* them; no ID mark is in two Sectors; a data mark that follows a data mark
\* is recorded alone; an ID mark followed by another ID mark, or left
\* pending when the scan ends, is recorded as a dangling IDAM and is not in
\* the sector list, which holds the Sectors only.
SectorsOf(areas) == {i \in DOMAIN areas : areas[i].kind = "Sector"}

Dangling(areas, o) ==
    /\ \E i \in DOMAIN areas : areas[i].kind = "IDAM" /\ areas[i].start = o
    /\ \A i \in SectorsOf(areas) : areas[i].idam.start # o

C17_MarkPairing ==
    scn # <<>> =>
       LET m == scn[1].marks
           areas == scn[1].st.areas
       IN  /\ \A i \in SectorsOf(areas) :
                \E j \in 1 .. Len(m) - 1 :
                   /\ m[j] = [kind |-> "IDAM", offs |-> areas[i].idam.start]
                   /\ m[j + 1] = [kind |-> "DAM", offs |-> areas[i].dam.start]
           /\ \A i, k \in SectorsOf(areas) :
                i # k => areas[i].idam.start # areas[k].idam.start
           /\ \A j \in 2 .. Len(m) :
                (m[j].kind = "DAM" /\ m[j - 1].kind = "DAM") =>
                   /\ \A i \in SectorsOf(areas) :
                        areas[i].dam.start # m[j].offs
                   /\ \E i \in DOMAIN areas :
                        areas[i].kind = "DAM" /\ areas[i].start = m[j].offs
           /\ \A j \in 1 .. Len(m) - 1 :
                (m[j].kind = "IDAM" /\ m[j + 1].kind = "IDAM") =>
                   Dangling(areas, m[j].offs)
           /\ scn[1].pc = "done" =>
                /\ (m # <<>> /\ m[Len(m)].kind = "IDAM") =>
                      Dangling(areas, m[Len(m)].offs)
                /\ Len(scn[1].sectors) = Cardinality(SectorsOf(areas))
                /\ \A k \in DOMAIN scn[1].sectors :
                     \E i \in SectorsOf(areas) :
                        scn[1].sectors[k] = areas[i]

\* A finished scan of an ID mark superseded by a second ID mark, which a
\* data mark follows, and one of an ID mark left pending after a Sector.
C17_Witness ==
    /\ scn # <<>> /\ scn[1].pc = "done"
    /\ Len(scn[1].marks) = 3
    /\ scn[1].marks[1].kind = "IDAM"
    /\ scn[1].marks[2].kind = "IDAM"
    /\ scn[1].marks[3].kind = "DAM"
    /\ Len(scn[1].sectors) = 1
    /\ Dangling(scn[1].st.areas, scn[1].marks[1].offs)

\* C18: a decode_raw on a formatted track leaves the expected sector list
\* with the same entries in the same order, each with its ID fields, its
\* mark and its offsets; an expected sector changes (in checksum state or
\* payload) only if a raw sector with a valid ID checksum has its ID
\* fields; the expected IAM list does not change.
SameFrame(a, b) ==
    /\ a.kind = b.kind /\ a.start = b.start /\ a.end = b.end
    /\ a.idam.c = b.idam.c /\ a.idam.h = b.idam.h
    /\ a.idam.r = b.idam.r /\ a.idam.n = b.idam.n
    /\ a.idam.start = b.idam.start /\ a.idam.end = b.idam.end
    /\ a.dam.start = b.dam.start /\ a.dam.end = b.dam.end
    /\ a.dam.mark = b.dam.mark

Decoded == trk # <<>> /\ ndec' = ndec + 1

C18_MismatchesAbsorbed ==
    [][Decoded =>
         LET s == trk[1].sectors
             s2 == trk'[1].sectors
             raw == trk'[1].raw_sectors
         IN  /\ Len(s2) = Len(s)
             /\ trk'[1].iams = trk[1].iams
             /\ \A i \in DOMAIN s :
                  /\ SameFrame(s[i], s2[i])
                  /\ s2[i] # s[i] =>
                       \E k \in DOMAIN raw :
                          raw[k].idam.crc = 0 /\ SameId(s[i], raw[k])]_vars

\* A decode that found a valid sector with an ID the track does not expect
\* and a sector with an expected ID and an invalid ID checksum, and left
\* the expected sectors as they were built.
C18_Witness ==
    /\ trk # <<>> /\ ndec = 1
    /\ \E k \in DOMAIN trk[1].raw_sectors :
         /\ trk[1].raw_sectors[k].idam.r = 9
         /\ trk[1].raw_sectors[k].crc = 0
    /\ \E k \in DOMAIN trk[1].raw_sectors :
         /\ trk[1].raw_sectors[k].idam.r = 1
         /\ trk[1].raw_sectors[k].idam.crc # 0
    /\ trk[1].sectors = from_format(Template(2, 1, TRUE), 1, 0).val.sectors

\* C19: over the decode_raw calls on a formatted track, an expected sector
\* with checksum 0 keeps the checksum 0 and its payload, and nr_missing()
\* does not increase.
C19_ValidityMonotonic ==
    [][Decoded =>
         /\ \A i \in DOMAIN trk[1].sectors :
              trk[1].sectors[i].crc = 0 =>
                 /\ trk'[1].sectors[i].crc = 0
                 /\ trk'[1].sectors[i].dam.data = trk[1].sectors[i].dam.data
         /\ nr_missing(trk'[1]) <= nr_missing(trk[1])]_vars

\* After two decodes an expected sector is valid with one payload, while
\* the raw list holds a valid detection of the same ID, added later, with
\* another payload.
C19_Witness ==
    /\ trk # <<>> /\ ndec = 2
    /\ \E i \in DOMAIN trk[1].sectors, k \in DOMAIN trk[1].raw_sectors :
         /\ trk[1].sectors[i].crc = 0
         /\ trk[1].sectors[i].dam.data = DataA
         /\ SameId(trk[1].sectors[i], trk[1].raw_sectors[k])
         /\ trk[1].raw_sectors[k].crc = 0
         /\ trk[1].raw_sectors[k].dam.data = DataB
         /\ k > 1

\* C20: on the track that from_format lays out, the index mark ends before
\* the first sector starts, every ID field ends before its data field
\* starts, every sector ends before the next one starts, the end of the
\* last sector plus the post-data gap is the computed track length, the
\* computed length is not above the final track length, which is the
\* greater of the computed and the nominal length, and an automatic
\* post-data gap is not above the maximum for the size code of sector 0.
C20_LayoutFits ==
    (lay # <<>> /\ trk # <<>>) =>
       LET t == trk[1]
           s == t.sectors
           config == lay[1].config
       IN  /\ Len(s) = config.secs
           /\ Len(t.iams) = (IF config.iam THEN 1 ELSE 0)
           /\ \A k \in DOMAIN t.iams :
                /\ 0 <= t.iams[k].start /\ t.iams[k].start < t.iams[k].end
                /\ \A i \in DOMAIN s : t.iams[k].end <= s[i].start
           /\ \A i \in DOMAIN s :
                /\ 0 <= s[i].start
                /\ s[i].idam.start = s[i].start /\ s[i].dam.end = s[i].end
                /\ s[i].idam.start < s[i].idam.end
                /\ s[i].idam.end <= s[i].dam.start
                /\ s[i].dam.start < s[i].dam.end
                /\ i < Len(s) => /\ s[i].start < s[i + 1].start
                                 /\ s[i].end <= s[i + 1].start
           /\ s # <<>> => s[Len(s)].end + 16 * t.gap_3 = t.tracklen
           /\ t.tracklen <= t.tracklen_bc
           /\ config.rate # 0 =>
                t.tracklen_bc =
                   Max(t.tracklen, (config.rate * 400 * 300) \div config.rpm)
           /\ (config.gap3 = NoneVal /\ config.secs # 0) =>
                /\ 0 <= t.gap_3
                /\ t.gap_3 <= GAP_3[config.sz[1] + 1]

\* A layout of three sectors behind an index mark, interleave 2, with an
\* automatic post-data gap below its maximum, and one of sectors of two
\* sizes.
C20_Witness ==
    /\ lay # <<>> /\ trk # <<>>
    /\ Len(trk[1].sectors) = 3 /\ trk[1].iams # <<>>
    /\ lay[1].config.gap3 = NoneVal /\ lay[1].config.interleave = 2
    /\ 0 < trk[1].gap_3 /\ trk[1].gap_3 < GAP_3[lay[1].config.sz[1] + 1]
    /\ trk[1].tracklen < trk[1].tracklen_bc


----------------------------------------------------------------------------
(* The track map against the final geometry of the disk.                   *)

\* The key (c, h) lies inside the geometry of the DiskConfig dc.
InGeometry(dc, p) ==
    /\ 0 <= p[1] /\ p[1] < dc.cyls
    /\ 0 <= p[2] /\ p[2] < dc.heads

\* C21 as stated: in the DiskConfig of every Format that get_format
\* returned, every key (c, h) of the track map satisfies 0 <= c < cyls and
\* 0 <= h < heads for the final values of cyls and heads, in whatever order
\* the key=value lines and the tracks blocks of the disk block come.
C21_AsStated ==
    (pc = "done" /\ result # <<>>) =>
       \A p \in DOMAIN result[1].fmt.track_map :
          InGeometry(result[1].fmt, p)

----------------------------------------------------------------------------
(* The raw lists of a formatted track over several decodes.                *)

\* C22 as stated: after any sequence of decode_raw calls on the same track
\* object, whose detections accumulate in raw_iams and raw_sectors, no two
\* entries of the IAM list and no two entries of the sector list have
\* starts within the track that differ by fewer than 1000 bit-cells.
C22_AsStated ==
    (trk # <<>> /\ ndec >= 1) =>
       \A l \in {trk[1].raw_iams, trk[1].raw_sectors} : Separated(l)

----------------------------------------------------------------------------
(* The sector IDs of a track built from an accepted template.              *)

\* C23 as stated: for every track template the compiler accepts (id in
\* 0..255, secs in 0..256) every sector built by construct_sectors has a
\* sector ID r = id + logical index in 0..255, and raw_track emits the ID
\* field (mark, c, h, r, n as single bytes) without error.
C23_AsStated ==
    /\ trk # <<>> =>
          \A i \in DOMAIN trk[1].sectors : IsByte(trk[1].sectors[i].idam.r)
    /\ wr # <<>> => wr[1].err = <<>>

====
